---- MODULE Spec2Model ----
(***************************************************************************)
(* Model of the disaster dashboard's service layer                         *)
(* (backend/services/disaster_data.py, class DisasterDataService) and of   *)
(* the route layer that calls it (backend/main.py).                        *)
(*                                                                         *)
(* Units.  Latitudes and longitudes are integers in 1/10000 of a degree    *)
(* (25.2048 is 252048), magnitudes are integers in tenths (6.2 is 62),     *)
(* depth factors are in tenths (0.8 is 8), so a risk score is in           *)
(* hundredths (6.5 is 650).  Time is in whole minutes.                     *)
(***************************************************************************)
EXTENDS Integers, Sequences, FiniteSets, TLC

(***************************************************************************)
(* Bounds of the model.                                                    *)
(***************************************************************************)
MaxFilterLen == 3
MaxEnrichLen == 2
MaxFeatures == 2
MaxTime == 5
MaxCalls == 2
NumTasks == 2
MaxApiFeatures == 3

VARIABLES
  orig,       \* harness: the collection as it was handed to the function
  inp,        \* harness: the same collection object, as the function left it
  region,     \* harness: the country argument
  stage,      \* harness: which calls have been made
  out,        \* harness: the value the first call returned
  out2,       \* harness: the value the second call returned
  cache,      \* self.cache: key -> [data, timestamp]
  now,        \* datetime.now(), in minutes
  calls,      \* the get_earthquakes coroutines: task -> frame
  requests,   \* the upstream queries sent so far
  ncalls,     \* number of service calls started
  lastCall,   \* the latest call or completion event and what it returned
  handler,    \* route layer: the request being handled, or the last one handled
  response    \* route layer: the latest HTTP response

harnessVars == << orig, inp, region, stage, out, out2 >>
serviceVars == << cache, now, calls, requests, ncalls, lastCall >>
apiVars == << handler, response >>
vars == << orig, inp, region, stage, out, out2,
           cache, now, calls, requests, ncalls, lastCall, handler, response >>

(***************************************************************************)
(* Values of a JSON field: a number, null, or the key is absent.           *)
(***************************************************************************)
Num(v) == [kind |-> "num", val |-> v]
Null == [kind |-> "null", val |-> 0]
Absent == [kind |-> "absent", val |-> 0]
NoStr == "<absent>"

(***************************************************************************)
(* class Country(Enum) and the COUNTRY_BOUNDS registry.                    *)
(***************************************************************************)
UAE == "uae"
CANADA == "canada"
ALL == "all"
Country == {UAE, CANADA, ALL}

COUNTRY_BOUNDS ==
  [c \in {UAE, CANADA} |->
     IF c = UAE
     THEN [name |-> "United Arab Emirates", code |-> "AE",
           min_lat |-> 225000, max_lat |-> 265000,
           min_lon |-> 510000, max_lon |-> 565000,
           center_lat |-> 240000, center_lon |-> 540000]
     ELSE [name |-> "Canada", code |-> "CA",
           min_lat |-> 410000, max_lat |-> 840000,
           min_lon |-> -1410000, max_lon |-> -520000,
           center_lat |-> 600000, center_lon |-> -950000]]

\* The order of COUNTRY_BOUNDS.items(): a dict keeps its insertion order.
RegistryOrder == << UAE, CANADA >>

\* None, as COUNTRY_BOUNDS.get(country) gives it for a missing key.
None == [name |-> NoStr, code |-> NoStr, min_lat |-> 0, max_lat |-> 0,
         min_lon |-> 0, max_lon |-> 0, center_lat |-> 0, center_lon |-> 0]

\* Mutant: COUNTRY_BOUNDS.get(country, <first entry>), a default in place of None.
GetCountryBoundsDefault(country) ==
  IF country \in DOMAIN COUNTRY_BOUNDS THEN COUNTRY_BOUNDS[country]
  ELSE COUNTRY_BOUNDS[UAE]

get_country_bounds(country) ==
  IF country \in DOMAIN COUNTRY_BOUNDS THEN COUNTRY_BOUNDS[country] ELSE None

get_available_countries ==
  [i \in 1..Len(RegistryOrder) |->
     [code |-> RegistryOrder[i],
      name |-> COUNTRY_BOUNDS[RegistryOrder[i]].name,
      center |-> << COUNTRY_BOUNDS[RegistryOrder[i]].center_lat,
                    COUNTRY_BOUNDS[RegistryOrder[i]].center_lon >>]]

(***************************************************************************)
(* A GeoJSON feature.  geom is "point" (geometry present, coords is its    *)
(* "coordinates" list), "absent" (no "geometry" key) or "null" (the key    *)
(* holds null).  The properties the service reads or writes are fields;    *)
(* a string property that is not set holds NoStr.                          *)
(***************************************************************************)
Feature(id, geom, coords, mag, depth, country) ==
  [id |-> id, geom |-> geom, coords |-> coords, mag |-> mag, depth |-> depth,
   country |-> country, country_code |-> NoStr,
   severity |-> NoStr, color |-> NoStr, risk_level |-> NoStr]

NoMetadata == [present |-> FALSE, country |-> NoStr, country_code |-> NoStr,
               total_filtered |-> 0]

\* A FeatureCollection as the upstream or a static dataset gives it.
Collection(fs) == [features |-> fs, metadata |-> NoMetadata]

\* {"type": "FeatureCollection", "features": []}
EmptyCollection == Collection(<< >>)

(***************************************************************************)
(* _filter_by_country                                                      *)
(***************************************************************************)
\* feature.get("geometry", {}).get("coordinates", []) : None.get raises.
CoordsRaises(f) == f.geom = "null"

CoordsOf(f) == IF f.geom = "point" THEN f.coords ELSE << >>

\* Mutant: the bounds taken as exclusive.
InBoundsExclusive(bounds, lat, lon) ==
  /\ bounds.min_lat < lat /\ lat < bounds.max_lat
  /\ bounds.min_lon < lon /\ lon < bounds.max_lon

InBounds(bounds, lat, lon) ==
  /\ bounds.min_lat <= lat /\ lat <= bounds.max_lat
  /\ bounds.min_lon <= lon /\ lon <= bounds.max_lon

\* Mutant: the coordinates read as [lat, lon].
RetainedLatLon(f, bounds) ==
  /\ Len(CoordsOf(f)) >= 2
  /\ InBounds(bounds, CoordsOf(f)[1], CoordsOf(f)[2])

\* The test of the loop body: the feature is appended to filtered_features.
Retained(f, bounds) ==
  /\ Len(CoordsOf(f)) >= 2
  /\ InBounds(bounds, CoordsOf(f)[2], CoordsOf(f)[1])

\* feature["properties"]["country"] = ...; ["country_code"] = ...
Stamp(f, bounds) == [f EXCEPT !.country = bounds.name, !.country_code = bounds.code]

\* Mutant: filtered_features.insert(0, feature) in place of append.
RECURSIVE FilteredFeaturesPrepend(_, _)
FilteredFeaturesPrepend(fs, bounds) ==
  IF fs = << >> THEN << >>
  ELSE IF Retained(Head(fs), bounds)
       THEN FilteredFeaturesPrepend(Tail(fs), bounds) \o << Stamp(Head(fs), bounds) >>
       ELSE FilteredFeaturesPrepend(Tail(fs), bounds)

RECURSIVE FilteredFeatures(_, _)
FilteredFeatures(fs, bounds) ==
  IF fs = << >> THEN << >>
  ELSE IF Retained(Head(fs), bounds)
       THEN << Stamp(Head(fs), bounds) >> \o FilteredFeatures(Tail(fs), bounds)
       ELSE FilteredFeatures(Tail(fs), bounds)

\* The loop reads every feature's coordinates, so one null geometry raises.
FilterRaises(data, country) ==
  /\ country # ALL
  /\ country \in DOMAIN COUNTRY_BOUNDS
  /\ \E i \in 1..Len(data.features) : CoordsRaises(data.features[i])

\* The input's features after the call: retained ones are stamped in place.
StampedInput(data, country) ==
  IF country = ALL \/ country \notin DOMAIN COUNTRY_BOUNDS THEN data
  ELSE [data EXCEPT !.features =
          [i \in 1..Len(data.features) |->
             IF Retained(data.features[i], COUNTRY_BOUNDS[country])
             THEN Stamp(data.features[i], COUNTRY_BOUNDS[country])
             ELSE data.features[i]]]

\* Mutant: no fast path for ALL, which the registry does not hold.
FilterByCountryNoFastPath(data, country) ==
  IF country \notin DOMAIN COUNTRY_BOUNDS THEN EmptyCollection
  ELSE LET bounds == COUNTRY_BOUNDS[country]
           filtered_features == FilteredFeatures(data.features, bounds)
       IN [features |-> filtered_features,
           metadata |-> [present |-> TRUE, country |-> bounds.name,
                         country_code |-> bounds.code,
                         total_filtered |-> Len(filtered_features)]]

\* Mutant: total_filtered counts the features of the input.
FilterByCountryInputCount(data, country) ==
  IF country = ALL THEN data
  ELSE IF country \notin DOMAIN COUNTRY_BOUNDS THEN EmptyCollection
  ELSE LET bounds == COUNTRY_BOUNDS[country]
           filtered_features == FilteredFeatures(data.features, bounds)
       IN [features |-> filtered_features,
           metadata |-> [present |-> TRUE, country |-> bounds.name,
                         country_code |-> bounds.code,
                         total_filtered |-> Len(data.features)]]

\* Mutant: a country the registry does not hold is treated like ALL.
FilterByCountryUnknownAsAll(data, country) ==
  IF country = ALL \/ country \notin DOMAIN COUNTRY_BOUNDS THEN data
  ELSE LET bounds == COUNTRY_BOUNDS[country]
           filtered_features == FilteredFeatures(data.features, bounds)
       IN [features |-> filtered_features,
           metadata |-> [present |-> TRUE, country |-> bounds.name,
                         country_code |-> bounds.code,
                         total_filtered |-> Len(filtered_features)]]

_filter_by_country(data, country) ==
  IF country = ALL THEN data
  ELSE IF country \notin DOMAIN COUNTRY_BOUNDS THEN EmptyCollection
  ELSE LET bounds == COUNTRY_BOUNDS[country]
           filtered_features == FilteredFeatures(data.features, bounds)
       IN [features |-> filtered_features,
           metadata |-> [present |-> TRUE, country |-> bounds.name,
                         country_code |-> bounds.code,
                         total_filtered |-> Len(filtered_features)]]

(***************************************************************************)
(* _process_earthquake_data and _calculate_risk_level                      *)
(***************************************************************************)
\* Mutant: a null magnitude read as 0, like a missing one.
MagOfNullAsZero(f) == IF f.mag.kind = "num" THEN f.mag ELSE Num(0)

\* props.get("mag", 0): the default only replaces a missing key.
MagOf(f) == IF f.mag.kind = "absent" THEN Num(0) ELSE f.mag
DepthOf(f) == IF f.depth.kind = "absent" THEN Num(0) ELSE f.depth

\* mag >= 7.0 with mag None raises TypeError; so does depth < 70.
EnrichRaises(f) == MagOf(f).kind = "null" \/ DepthOf(f).kind = "null"

\* Mutant: the thresholds taken as exclusive.
SeverityExclusive(mag) ==
  IF mag > 70 THEN "Extreme"
  ELSE IF mag > 60 THEN "Severe"
  ELSE IF mag > 50 THEN "Strong"
  ELSE IF mag > 40 THEN "Moderate"
  ELSE "Light"

Severity(mag) ==
  IF mag >= 70 THEN "Extreme"
  ELSE IF mag >= 60 THEN "Severe"
  ELSE IF mag >= 50 THEN "Strong"
  ELSE IF mag >= 40 THEN "Moderate"
  ELSE "Light"

SeverityColor(mag) ==
  IF mag >= 70 THEN "darkred"
  ELSE IF mag >= 60 THEN "red"
  ELSE IF mag >= 50 THEN "orange"
  ELSE IF mag >= 40 THEN "yellow"
  ELSE "green"

\* Mutant: the depth bands closed at their upper ends.
DepthFactorInclusive(depth) == IF depth <= 70 THEN 10 ELSE IF depth <= 300 THEN 8 ELSE 6

DepthFactor(depth) == IF depth < 70 THEN 10 ELSE IF depth < 300 THEN 8 ELSE 6

\* Mutant: the labels of the two upper bands exchanged.
CalculateRiskLevelSwapped(magnitude, depth) ==
  LET risk_score == magnitude * DepthFactor(depth)
  IN IF risk_score >= 650 THEN "High"
     ELSE IF risk_score >= 550 THEN "Critical"
     ELSE IF risk_score >= 400 THEN "Medium"
     ELSE "Low"

_calculate_risk_level(magnitude, depth) ==
  LET risk_score == magnitude * DepthFactor(depth)
  IN IF risk_score >= 650 THEN "Critical"
     ELSE IF risk_score >= 550 THEN "High"
     ELSE IF risk_score >= 400 THEN "Medium"
     ELSE "Low"

EnrichFeature(f) ==
  [f EXCEPT !.severity = Severity(MagOf(f).val),
            !.color = SeverityColor(MagOf(f).val),
            !.risk_level = _calculate_risk_level(MagOf(f).val, DepthOf(f).val)]

ProcessRaises(data) ==
  \E i \in 1..Len(data.features) : EnrichRaises(data.features[i])

_process_earthquake_data(data) ==
  [data EXCEPT !.features =
     [i \in 1..Len(data.features) |-> EnrichFeature(data.features[i])]]

(***************************************************************************)
(* Inputs of the function-level specifications.  A collection numbers its  *)
(* features 1..n in source order, so a feature's id is its source position.*)
(***************************************************************************)
SeqsUpTo(S, n) == UNION {[1..k -> S] : k \in 0..n}

Numbered(fs) == [i \in 1..Len(fs) |-> [fs[i] EXCEPT !.id = i]]

Point(lon, lat) == Feature(0, "point", << lon, lat >>, Absent, Absent, NoStr)

\* One interior point per region, and for each bound of each region a point
\* on it and a point one unit outside it, the other axis being interior.
EdgePoints(b, lon0, lat0) ==
  {Point(lon0, lat) : lat \in {b.min_lat - 1, b.min_lat, b.max_lat, b.max_lat + 1}}
    \cup
  {Point(lon, lat0) : lon \in {b.min_lon - 1, b.min_lon, b.max_lon, b.max_lon + 1}}

FilterPool ==
  EdgePoints(COUNTRY_BOUNDS[UAE], 550000, 240000)
    \cup EdgePoints(COUNTRY_BOUNDS[CANADA], -1140719, 510447)
    \cup {Point(550000, 240000),
          Feature(0, "point", << 552708, 252048 >>, Absent, Absent,
                  "United Arab Emirates"),
          Feature(0, "point", << -1140719, 510447 >>, Absent, Absent, "Canada"),
          Feature(0, "point", << 550000, 240000, 50 >>, Num(62), Absent, NoStr),
          Feature(0, "point", << >>, Absent, Absent, NoStr),
          Feature(0, "point", << 550000 >>, Absent, Absent, NoStr),
          Feature(0, "absent", << >>, Absent, Absent, NoStr),
          Feature(0, "null", << >>, Absent, Absent, NoStr)}

FilterInputs == {Collection(Numbered(fs)) : fs \in SeqsUpTo(FilterPool, MaxFilterLen)}

MagSamples ==
  {Absent, Null} \cup
  {Num(m) : m \in {39, 40, 49, 50, 54, 55, 59, 60, 64, 65, 68, 69, 70, 81, 82}}

DepthSamples == {Absent} \cup {Num(d) : d \in {69, 70, 299, 300}}

EnrichPool ==
  {Feature(0, "point", << 550000, 240000 >>, m, d, NoStr) :
     m \in MagSamples, d \in DepthSamples}

EnrichInputs == {Collection(Numbered(fs)) : fs \in SeqsUpTo(EnrichPool, MaxEnrichLen)}

(***************************************************************************)
(* The time-boxed cache.  A cache key is the string the fetcher formats    *)
(* from its category and arguments ("earthquakes_{limit}_{min_magnitude}_  *)
(* {country}", "wildfires_{country}", "weather_alerts_{country}"); the     *)
(* record holds the fields that string is made of, 0 where it has none.    *)
(***************************************************************************)
cache_duration == 5

EarthquakeKey(limit, min_magnitude, country) ==
  [category |-> "earthquakes", limit |-> limit,
   min_magnitude |-> min_magnitude, country |-> country]

WildfireKey(country) ==
  [category |-> "wildfires", limit |-> 0, min_magnitude |-> 0, country |-> country]

WeatherKey(country) ==
  [category |-> "weather_alerts", limit |-> 0, min_magnitude |-> 0, country |-> country]

NoKey == [category |-> "none", limit |-> 0, min_magnitude |-> 0, country |-> "none"]

\* Mutant: the comparison turned round, so only expired entries count as valid.
IsCacheValidInverted(key) ==
  IF key \notin DOMAIN cache THEN FALSE
  ELSE now - cache[key].timestamp > cache_duration

\* Mutant: an entry exactly cache_duration old still counts as valid.
IsCacheValidInclusive(key) ==
  IF key \notin DOMAIN cache THEN FALSE
  ELSE now - cache[key].timestamp <= cache_duration

_is_cache_valid(key) ==
  IF key \notin DOMAIN cache THEN FALSE
  ELSE now - cache[key].timestamp < cache_duration

\* Mutant: a store also drops the entries that have expired.
CachePutEvictExpired(key, value) ==
  [k \in {j \in DOMAIN cache : now - cache[j].timestamp < cache_duration} \cup {key} |->
     IF k = key THEN [data |-> value, timestamp |-> now] ELSE cache[k]]

\* self.cache[cache_key] = {"data": ..., "timestamp": datetime.now()}
CachePut(key, value) ==
  [k \in (DOMAIN cache) \cup {key} |->
     IF k = key THEN [data |-> value, timestamp |-> now] ELSE cache[k]]

(***************************************************************************)
(* The static datasets of get_wildfires, get_weather_alerts and            *)
(* get_relief_centers.                                                     *)
(***************************************************************************)
StaticFeature(lon, lat, severity, color, country) ==
  [Feature(0, "point", << lon, lat >>, Absent, Absent, country)
     EXCEPT !.severity = severity, !.color = color]

ALL_WILDFIRES ==
  Collection(Numbered(<<
    StaticFeature(552708, 252048, "Low", "yellow", "United Arab Emirates"),
    StaticFeature(560833, 243667, "Low", "green", "United Arab Emirates"),
    StaticFeature(-1140719, 510447, "High", "red", "Canada"),
    StaticFeature(-1231207, 492827, "Extreme", "darkred", "Canada"),
    StaticFeature(-1063468, 521332, "Medium", "orange", "Canada"),
    StaticFeature(-793832, 436532, "Low", "yellow", "Canada") >>))

ALL_ALERTS ==
  Collection(Numbered(<<
    StaticFeature(552708, 252048, "Medium", "orange", "United Arab Emirates"),
    StaticFeature(543773, 244539, "High", "red", "United Arab Emirates"),
    StaticFeature(-756972, 454215, "Medium", "orange", "Canada"),
    StaticFeature(-1140719, 510447, "Extreme", "purple", "Canada") >>))

ALL_CENTERS ==
  Collection(Numbered(<<
    StaticFeature(552708, 252048, NoStr, NoStr, "United Arab Emirates"),
    StaticFeature(543773, 244539, NoStr, NoStr, "United Arab Emirates"),
    StaticFeature(563269, 253382, NoStr, NoStr, "United Arab Emirates"),
    StaticFeature(-756972, 454215, NoStr, NoStr, "Canada"),
    StaticFeature(-1140719, 510447, NoStr, NoStr, "Canada"),
    StaticFeature(-1231207, 492827, NoStr, NoStr, "Canada") >>))

(***************************************************************************)
(* The seismic upstream.  A response is a status and, when the status is   *)
(* "ok", the decoded body.  The other statuses are the ways the awaited    *)
(* request or the decoding of its body raises.                             *)
(***************************************************************************)
Limits == {1, 2}
MinMagnitudes == {25}

UpstreamFailures == {"network_error", "timeout", "http_status", "bad_json", "no_features"}

\* The upstream's catalogue, in the order the upstream lists events; a body
\* holds some of them, in that order.
QuakeCatalogue ==
  << Feature(0, "point", << 550000, 240000, 50 >>, Num(62), Num(50), NoStr),
     Feature(0, "point", << 510000, 225000, 10 >>, Num(70), Absent, NoStr),
     Feature(0, "point", << -1140719, 510447, 5 >>, Num(45), Absent, NoStr),
     Feature(0, "point", << 552708, 252048, 10 >>, Null, Absent, NoStr) >>

RECURSIVE Pick(_, _)
Pick(catalogue, chosen) ==
  IF catalogue = << >> THEN << >>
  ELSE IF Len(catalogue) \in chosen
       THEN Pick(SubSeq(catalogue, 1, Len(catalogue) - 1), chosen)
              \o << catalogue[Len(catalogue)] >>
       ELSE Pick(SubSeq(catalogue, 1, Len(catalogue) - 1), chosen)

UpstreamBodies ==
  {Collection(Numbered(Pick(QuakeCatalogue, chosen))) :
     chosen \in {c \in SUBSET (1..Len(QuakeCatalogue)) : Cardinality(c) <= MaxFeatures}}

\* Mutant: "limit": limit, without the doubling.
QuerySingleLimit(limit, min_magnitude, country) ==
  IF country # ALL /\ country \in DOMAIN COUNTRY_BOUNDS
  THEN [limit |-> limit, minmagnitude |-> min_magnitude, bbox |-> TRUE,
        minlatitude |-> COUNTRY_BOUNDS[country].min_lat,
        maxlatitude |-> COUNTRY_BOUNDS[country].max_lat,
        minlongitude |-> COUNTRY_BOUNDS[country].min_lon,
        maxlongitude |-> COUNTRY_BOUNDS[country].max_lon]
  ELSE [limit |-> limit, minmagnitude |-> min_magnitude, bbox |-> FALSE,
        minlatitude |-> 0, maxlatitude |-> 0, minlongitude |-> 0, maxlongitude |-> 0]

\* The query parameters of the request (params, lines 146-161).
Query(limit, min_magnitude, country) ==
  IF country # ALL /\ country \in DOMAIN COUNTRY_BOUNDS
  THEN [limit |-> limit * 2, minmagnitude |-> min_magnitude, bbox |-> TRUE,
        minlatitude |-> COUNTRY_BOUNDS[country].min_lat,
        maxlatitude |-> COUNTRY_BOUNDS[country].max_lat,
        minlongitude |-> COUNTRY_BOUNDS[country].min_lon,
        maxlongitude |-> COUNTRY_BOUNDS[country].max_lon]
  ELSE [limit |-> limit * 2, minmagnitude |-> min_magnitude, bbox |-> FALSE,
        minlatitude |-> 0, maxlatitude |-> 0, minlongitude |-> 0, maxlongitude |-> 0]

\* Mutant: the slice taken one feature too long, [:limit + 1].
TruncateOneMore(filtered_data, limit) ==
  IF Len(filtered_data.features) > limit
  THEN [filtered_data EXCEPT !.features =
          SubSeq(filtered_data.features, 1,
                 IF Len(filtered_data.features) > limit + 1
                 THEN limit + 1 ELSE Len(filtered_data.features))]
  ELSE filtered_data

\* if len(filtered_data["features"]) > limit: ... = ...[:limit]
Truncate(filtered_data, limit) ==
  IF Len(filtered_data.features) > limit
  THEN [filtered_data EXCEPT !.features = SubSeq(filtered_data.features, 1, limit)]
  ELSE filtered_data

\* Whether the statements of the try block raise on this response.
FetchRaises(status, body, country) ==
  \/ status # "ok"
  \/ ProcessRaises(body)
  \/ FilterRaises(_process_earthquake_data(body), country)

\* Mutant: the try block ends after response.json(), so an error of the
\* processing or of the filter reaches the caller.
EarthquakeOutcomeNarrowTry(status, body, limit, country) ==
  IF status # "ok"
  THEN [raised |-> FALSE, store |-> FALSE, value |-> EmptyCollection]
  ELSE IF FetchRaises(status, body, country)
  THEN [raised |-> TRUE, store |-> FALSE, value |-> EmptyCollection]
  ELSE [raised |-> FALSE, store |-> TRUE,
        value |-> Truncate(_filter_by_country(_process_earthquake_data(body), country), limit)]

\* Mutant: the except branch stores the empty collection it returns.
EarthquakeOutcomeStoreFallback(status, body, limit, country) ==
  IF FetchRaises(status, body, country)
  THEN [raised |-> FALSE, store |-> TRUE, value |-> EmptyCollection]
  ELSE [raised |-> FALSE, store |-> TRUE,
        value |-> Truncate(_filter_by_country(_process_earthquake_data(body), country), limit)]

\* What get_earthquakes does with the response once the await returns:
\* whether an exception leaves the coroutine, whether the cache is written,
\* and the value returned.
EarthquakeOutcome(status, body, limit, country) ==
  IF FetchRaises(status, body, country)
  THEN [raised |-> FALSE, store |-> FALSE, value |-> EmptyCollection]
  ELSE [raised |-> FALSE, store |-> TRUE,
        value |-> Truncate(_filter_by_country(_process_earthquake_data(body), country), limit)]

(***************************************************************************)
(* The service after __init__, and its operations.                         *)
(***************************************************************************)
Tasks == 1..NumTasks

\* The frame of a get_earthquakes coroutine: where it stands, its cache key,
\* and what its cache check found ("absent": no entry, "expired": an entry
\* that is no longer valid).
IdleFrame == [pc |-> "idle", key |-> NoKey, found |-> "none"]

\* lastCall: the event ("call": a fetcher was called; "complete": a suspended
\* get_earthquakes ran to its end), its cache key, whether the call found a
\* valid entry, and how the coroutine ended: a value returned or an exception
\* raised to the caller (neither while it is suspended).
NoCall == [event |-> "none", task |-> 0, key |-> NoKey, hit |-> FALSE,
           returned |-> FALSE, raised |-> FALSE, value |-> EmptyCollection]

ServiceInit ==
  /\ cache = [k \in {} |-> [data |-> EmptyCollection, timestamp |-> 0]]
  /\ now = 0
  /\ calls = [t \in Tasks |-> IdleFrame]
  /\ requests = << >>
  /\ ncalls = 0
  /\ lastCall = NoCall

\* The coroutine of a new call takes the first free slot.
FreeTask(t) ==
  /\ calls[t].pc = "idle"
  /\ \A u \in Tasks : u < t => calls[u].pc # "idle"

\* A call that returns at once, with value v.
Returns(event, t, key, hit, v) ==
  [NoCall EXCEPT !.event = event, !.task = t, !.key = key, !.hit = hit,
                 !.returned = TRUE, !.value = v]

\* Mutant: a valid entry of the same limit and magnitude is served whatever
\* its region, as if the key left the region out.
GetEarthquakesHitAnyRegion(t, limit, min_magnitude, country) ==
  LET cache_key == EarthquakeKey(limit, min_magnitude, country)
  IN /\ FreeTask(t)
     /\ ncalls < MaxCalls
     /\ \E c \in Country : _is_cache_valid(EarthquakeKey(limit, min_magnitude, c))
     /\ ncalls' = ncalls + 1
     /\ \E c \in Country :
          /\ _is_cache_valid(EarthquakeKey(limit, min_magnitude, c))
          /\ lastCall' = Returns("call", t, cache_key, TRUE,
                                 cache[EarthquakeKey(limit, min_magnitude, c)].data)
     /\ UNCHANGED << cache, now, calls, requests, harnessVars, apiVars >>

\* get_earthquakes, lines 138-142: the cache holds a valid entry.
GetEarthquakesHit(t, limit, min_magnitude, country) ==
  LET cache_key == EarthquakeKey(limit, min_magnitude, country)
  IN /\ FreeTask(t)
     /\ ncalls < MaxCalls
     /\ _is_cache_valid(cache_key)
     /\ ncalls' = ncalls + 1
     /\ lastCall' = Returns("call", t, cache_key, TRUE, cache[cache_key].data)
     /\ UNCHANGED << cache, now, calls, requests, harnessVars, apiVars >>

\* Mutant: single flight, a miss sends no request while another call for the
\* same key is suspended.
GetEarthquakesMissSingleFlight(t, limit, min_magnitude, country) ==
  LET cache_key == EarthquakeKey(limit, min_magnitude, country)
  IN /\ FreeTask(t)
     /\ ncalls < MaxCalls
     /\ ~_is_cache_valid(cache_key)
     /\ ncalls' = ncalls + 1
     /\ requests' = IF \E u \in Tasks : calls[u].pc = "awaiting" /\ calls[u].key = cache_key
                    THEN requests
                    ELSE Append(requests, Query(limit, min_magnitude, country))
     /\ calls' = [calls EXCEPT ![t] =
                   [pc |-> "awaiting", key |-> cache_key,
                    found |-> IF cache_key \in DOMAIN cache THEN "expired" ELSE "absent"]]
     /\ lastCall' = [NoCall EXCEPT !.event = "call", !.task = t, !.key = cache_key]
     /\ UNCHANGED << cache, now, harnessVars, apiVars >>

\* get_earthquakes, lines 138-164: no valid entry; the request is sent and
\* the coroutine is suspended at the await.
GetEarthquakesMiss(t, limit, min_magnitude, country) ==
  LET cache_key == EarthquakeKey(limit, min_magnitude, country)
  IN /\ FreeTask(t)
     /\ ncalls < MaxCalls
     /\ ~_is_cache_valid(cache_key)
     /\ ncalls' = ncalls + 1
     /\ requests' = Append(requests, Query(limit, min_magnitude, country))
     /\ calls' = [calls EXCEPT ![t] =
                   [pc |-> "awaiting", key |-> cache_key,
                    found |-> IF cache_key \in DOMAIN cache THEN "expired" ELSE "absent"]]
     /\ lastCall' = [NoCall EXCEPT !.event = "call", !.task = t, !.key = cache_key]
     /\ UNCHANGED << cache, now, harnessVars, apiVars >>

\* get_earthquakes, lines 164-188: the await returns or raises, and the
\* coroutine runs to its end.
GetEarthquakesResume(t, status, body) ==
  /\ calls[t].pc = "awaiting"
  /\ LET cache_key == calls[t].key
         outcome == EarthquakeOutcome(status, body, cache_key.limit, cache_key.country)
     IN /\ cache' = IF outcome.store THEN CachePut(cache_key, outcome.value) ELSE cache
        /\ lastCall' = [event |-> "complete", task |-> t, key |-> cache_key,
                        hit |-> FALSE, returned |-> ~outcome.raised,
                        raised |-> outcome.raised, value |-> outcome.value]
  /\ calls' = [calls EXCEPT ![t] = IdleFrame]
  /\ UNCHANGED << now, requests, ncalls, harnessVars, apiVars >>

\* A fetcher over a static dataset: get_wildfires, get_weather_alerts.
StaticHit(cache_key) ==
  /\ ncalls < MaxCalls
  /\ _is_cache_valid(cache_key)
  /\ ncalls' = ncalls + 1
  /\ lastCall' = Returns("call", 0, cache_key, TRUE, cache[cache_key].data)
  /\ UNCHANGED << cache, now, calls, requests, harnessVars, apiVars >>

\* Mutant: a call that was suspended between its cache check and its store,
\* and stores although the entry has become valid meanwhile.
StaticMissOverlapping(cache_key, dataset) ==
  /\ ncalls < MaxCalls
  /\ ncalls' = ncalls + 1
  /\ LET filtered_data == _filter_by_country(dataset, cache_key.country)
     IN /\ cache' = CachePut(cache_key, filtered_data)
        /\ lastCall' = Returns("call", 0, cache_key, FALSE, filtered_data)
  /\ UNCHANGED << now, calls, requests, harnessVars, apiVars >>

StaticMiss(cache_key, dataset) ==
  /\ ncalls < MaxCalls
  /\ ~_is_cache_valid(cache_key)
  /\ ncalls' = ncalls + 1
  /\ LET filtered_data == _filter_by_country(dataset, cache_key.country)
     IN /\ cache' = CachePut(cache_key, filtered_data)
        /\ lastCall' = Returns("call", 0, cache_key, FALSE, filtered_data)
  /\ UNCHANGED << now, calls, requests, harnessVars, apiVars >>

GetWildfiresHit(country) == StaticHit(WildfireKey(country))
GetWildfiresMiss(country) == StaticMiss(WildfireKey(country), ALL_WILDFIRES)
GetWeatherAlertsHit(country) == StaticHit(WeatherKey(country))
GetWeatherAlertsMiss(country) == StaticMiss(WeatherKey(country), ALL_ALERTS)

\* get_relief_centers: no cache.
GetReliefCenters(country) ==
  /\ ncalls < MaxCalls
  /\ ncalls' = ncalls + 1
  /\ lastCall' = Returns("call", 0, [NoKey EXCEPT !.category = "relief_centers",
                                                  !.country = country],
                         FALSE, _filter_by_country(ALL_CENTERS, country))
  /\ UNCHANGED << cache, now, calls, requests, harnessVars, apiVars >>

\* Time passes.
Tick ==
  /\ now < MaxTime
  /\ now' = now + 1
  /\ UNCHANGED << cache, calls, requests, ncalls, lastCall, harnessVars, apiVars >>

(***************************************************************************)
(* The route layer (backend/main.py) and get_disaster_statistics.  One     *)
(* request is handled at a time; a handler is suspended only while a       *)
(* get_earthquakes it awaits is waiting for the upstream.  A request names *)
(* the fetchers that fail under it (faults): such a fetcher raises when it *)
(* is called, before it reads or writes anything.                          *)
(***************************************************************************)
\* task_types, in the order get_all_disasters appends them.
TaskTypes == << "earthquakes", "wildfires", "weather_alerts", "relief_centers" >>

Categories == {TaskTypes[i] : i \in 1..Len(TaskTypes)}

\* The default arguments of get_earthquakes, and the limit of the details route.
DefaultLimit == 50
DefaultMinMagnitude == 25
DetailsLimit == 200

\* str.lower() on the country strings of the model.
Lower(s) == CASE s = "UAE" -> "uae" [] s = "Canada" -> "canada" [] OTHER -> s

\* Mutant: a string that names no member of Country is read as Country.ALL.
ParseCountryDefaultAll(country) ==
  IF Lower(country) \in Country
  THEN [ok |-> TRUE, value |-> Lower(country)]
  ELSE [ok |-> TRUE, value |-> ALL]

\* Country(country.lower()): the member with that value, or ValueError.
ParseCountry(country) ==
  IF Lower(country) \in Country
  THEN [ok |-> TRUE, value |-> Lower(country)]
  ELSE [ok |-> FALSE, value |-> ALL]

\* {} as get_disaster_statistics returns it from its except branch.
NoStats ==
  [present |-> FALSE, country |-> NoStr, country_name |-> NoStr,
   total_earthquakes |-> 0, severe_earthquakes |-> 0, total_wildfires |-> 0,
   active_weather_alerts |-> 0, avg_earthquake_magnitude |-> [num |-> 0, den |-> 1]]

NoParts == [c \in Categories |-> EmptyCollection]

\* An HTTP response: the status, and the fields of the body the routes fill.
NoResponse ==
  [status |-> 0, kind |-> "none", country |-> NoStr, country_name |-> NoStr,
   collection |-> EmptyCollection, keys |-> {}, parts |-> NoParts,
   stats |-> NoStats, bounds |-> None, countries |-> << >>]

HttpError(status) == [NoResponse EXCEPT !.status = status, !.kind = "error"]

IdleHandler ==
  [pc |-> "idle", route |-> "none", country |-> NoStr, include |-> {},
   faults |-> {}, key |-> NoKey, parts |-> NoParts, event_id |-> 0]

ApiIdle == handler = IdleHandler /\ response = NoResponse

\* The frame of a request: the route, its country string and its other inputs.
Request(route, country, include, faults, key, event_id) ==
  [pc |-> "idle", route |-> route, country |-> country, include |-> include,
   faults |-> faults, key |-> key, parts |-> NoParts, event_id |-> event_id]

StaticDataset(category) ==
  IF category = "wildfires" THEN ALL_WILDFIRES
  ELSE IF category = "weather_alerts" THEN ALL_ALERTS
  ELSE ALL_CENTERS

StaticKey(category, country) ==
  IF category = "wildfires" THEN WildfireKey(country) ELSE WeatherKey(country)

\* The fetcher of a static category returns a valid entry of its key.
StaticCached(category, country) ==
  /\ category \in {"wildfires", "weather_alerts"}
  /\ _is_cache_valid(StaticKey(category, country))

\* What get_wildfires, get_weather_alerts or get_relief_centers returns.
StaticValue(category, country) ==
  IF StaticCached(category, country)
  THEN cache[StaticKey(category, country)].data
  ELSE _filter_by_country(StaticDataset(category), country)

\* The keys the static fetchers of these categories write when they are called.
StaticStores(categories, country) ==
  {StaticKey(c, country) :
     c \in {x \in categories \cap {"wildfires", "weather_alerts"} :
              ~StaticCached(x, country)}}

\* The cache after the fetchers of one handler step have written these keys;
\* eq_key is the key of the seismic fetch among them, eq_value its result.
Stored(keys, eq_key, eq_value) ==
  [k \in (DOMAIN cache) \cup keys |->
     IF k \in keys
     THEN [data |-> IF k = eq_key THEN eq_value
                    ELSE _filter_by_country(StaticDataset(k.category), k.country),
           timestamp |-> now]
     ELSE cache[k]]

\* The results of the static fetchers among the selected ones.
StaticParts(include, faults, country) ==
  [c \in Categories |->
     IF c \in (include \ faults) /\ c # "earthquakes"
     THEN StaticValue(c, country) ELSE EmptyCollection]

\* Mutant: the key of a fetcher that raised is left out of the response.
AllResponseDropFailed(country, include, faults, parts) ==
  [NoResponse EXCEPT
     !.status = 200, !.kind = "combined", !.country = country,
     !.country_name = IF ParseCountry(country).value # ALL
                      THEN get_country_bounds(ParseCountry(country).value).name
                      ELSE "Global",
     !.keys = include \ faults,
     !.parts = [c \in Categories |->
                  IF c \in include \ faults THEN parts[c] ELSE EmptyCollection]]

\* Mutant: the response holds a key for every category, selected or not.
AllResponseEveryKey(country, include, faults, parts) ==
  [NoResponse EXCEPT
     !.status = 200, !.kind = "combined", !.country = country,
     !.country_name = IF ParseCountry(country).value # ALL
                      THEN get_country_bounds(ParseCountry(country).value).name
                      ELSE "Global",
     !.keys = Categories,
     !.parts = [c \in Categories |->
                  IF c \in include \ faults THEN parts[c] ELSE EmptyCollection]]

\* get_all_disasters, lines 212-224: the response built from the results of
\* gather; an exception among them becomes an empty FeatureCollection.
AllResponse(country, include, faults, parts) ==
  [NoResponse EXCEPT
     !.status = 200, !.kind = "combined", !.country = country,
     !.country_name = IF ParseCountry(country).value # ALL
                      THEN get_country_bounds(ParseCountry(country).value).name
                      ELSE "Global",
     !.keys = include,
     !.parts = [c \in Categories |->
                  IF c \in include \ faults THEN parts[c] ELSE EmptyCollection]]

RECURSIVE SumMags(_)
SumMags(features) ==
  IF features = << >> THEN 0
  ELSE MagOf(Head(features)).val + SumMags(Tail(features))

\* Mutant: severe_earthquakes counts magnitudes above 6.0 only.
StatsOfSevereExclusive(country, earthquakes, wildfires, weather_alerts) ==
  LET mags == earthquakes.features
  IN [present |-> TRUE, country |-> country,
      country_name |-> IF country \in DOMAIN COUNTRY_BOUNDS
                       THEN COUNTRY_BOUNDS[country].name ELSE "Global",
      total_earthquakes |-> Len(earthquakes.features),
      severe_earthquakes |->
        Cardinality({i \in 1..Len(mags) : MagOf(mags[i]).val > 60}),
      total_wildfires |-> Len(wildfires.features),
      active_weather_alerts |-> Len(weather_alerts.features),
      avg_earthquake_magnitude |->
        IF Len(mags) = 0 THEN [num |-> 0, den |-> 1]
        ELSE [num |-> SumMags(mags), den |-> Len(mags)]]

\* get_disaster_statistics, lines 561-578.  The mean is the exact fraction
\* sum(mags) / len(mags), in tenths, and 0 when there are no magnitudes.
StatsOf(country, earthquakes, wildfires, weather_alerts) ==
  LET mags == earthquakes.features
  IN [present |-> TRUE, country |-> country,
      country_name |-> IF country \in DOMAIN COUNTRY_BOUNDS
                       THEN COUNTRY_BOUNDS[country].name ELSE "Global",
      total_earthquakes |-> Len(earthquakes.features),
      severe_earthquakes |->
        Cardinality({i \in 1..Len(mags) : MagOf(mags[i]).val >= 60}),
      total_wildfires |-> Len(wildfires.features),
      active_weather_alerts |-> Len(weather_alerts.features),
      avg_earthquake_magnitude |->
        IF Len(mags) = 0 THEN [num |-> 0, den |-> 1]
        ELSE [num |-> SumMags(mags), den |-> Len(mags)]]

\* f["properties"].get("mag", 0) >= 6.0 raises on a null magnitude.
StatsRaises(earthquakes) ==
  \E i \in 1..Len(earthquakes.features) : MagOf(earthquakes.features[i]).kind = "null"

\* Mutant: the try block ends before the fetches of the static categories, so
\* an exception of one of them leaves get_disaster_statistics.
StatisticsTailNarrowTry(faults, country, earthquakes) ==
  IF faults \cap {"wildfires", "weather_alerts"} # {}
  THEN [raised |-> TRUE, stats |-> NoStats]
  ELSE IF StatsRaises(earthquakes)
  THEN [raised |-> FALSE, stats |-> NoStats]
  ELSE [raised |-> FALSE,
        stats |-> StatsOf(country, earthquakes, StaticValue("wildfires", country),
                          StaticValue("weather_alerts", country))]

\* Mutant: no seismic feature is taken for a failure, and {} is returned.
StatisticsTailEmptyOnNoQuakes(faults, country, earthquakes) ==
  IF \/ faults \cap {"wildfires", "weather_alerts"} # {}
     \/ StatsRaises(earthquakes)
     \/ Len(earthquakes.features) = 0
  THEN [raised |-> FALSE, stats |-> NoStats]
  ELSE [raised |-> FALSE,
        stats |-> StatsOf(country, earthquakes, StaticValue("wildfires", country),
                          StaticValue("weather_alerts", country))]

\* get_disaster_statistics from line 558 on, the earthquakes being fetched:
\* whether an exception leaves it, and the statistics it returns.
StatisticsTail(faults, country, earthquakes) ==
  IF faults \cap {"wildfires", "weather_alerts"} # {} \/ StatsRaises(earthquakes)
  THEN [raised |-> FALSE, stats |-> NoStats]
  ELSE [raised |-> FALSE,
        stats |-> StatsOf(country, earthquakes, StaticValue("wildfires", country),
                          StaticValue("weather_alerts", country))]

\* The static fetchers get_disaster_statistics calls until one raises.
TailCalled(faults) ==
  IF "wildfires" \in faults THEN {"wildfires"} ELSE {"wildfires", "weather_alerts"}

\* get_statistics, lines 249-255: the response to the statistics.
StatsResponse(country, outcome) ==
  IF outcome.raised THEN HttpError(500)
  ELSE [NoResponse EXCEPT !.status = 200, !.kind = "statistics",
                          !.country = country, !.stats = outcome.stats]

CollectionResponse(country, value) ==
  [NoResponse EXCEPT !.status = 200, !.kind = "collection",
                     !.country = country, !.collection = value]

\* get_earthquake_details, lines 277-281: the feature of that id, or 404.
DetailsResponse(country, event_id, earthquakes) ==
  LET found == {i \in 1..Len(earthquakes.features) :
                  earthquakes.features[i].id = event_id}
  IN IF found = {} THEN HttpError(404)
     ELSE [NoResponse EXCEPT
             !.status = 200, !.kind = "feature", !.country = country,
             !.collection =
               Collection(<< earthquakes.features[CHOOSE i \in found :
                                                   \A j \in found : i <= j] >>)]

\* A request is taken while no handler is suspended and the service has been
\* called fewer than MaxCalls times.
Admitted == handler.pc = "idle" /\ ncalls < MaxCalls

\* Any route with a country parameter, lines 76-82: HTTP 400.
RouteRejected(route, country) ==
  /\ Admitted
  /\ ~ParseCountry(country).ok
  /\ handler' = Request(route, country, {}, {}, NoKey, 0)
  /\ response' = [HttpError(400) EXCEPT !.country = country]
  /\ UNCHANGED << serviceVars, harnessVars >>

\* /wildfires, /weather-alerts, /relief-centers.
RouteStatic(category, country) ==
  /\ Admitted
  /\ ParseCountry(country).ok
  /\ LET c == ParseCountry(country).value
     IN /\ response' = CollectionResponse(country, StaticValue(category, c))
        /\ cache' = Stored(StaticStores({category}, c), NoKey, EmptyCollection)
  /\ ncalls' = ncalls + 1
  /\ handler' = Request(category, country, {category}, {}, NoKey, 0)
  /\ UNCHANGED << now, calls, requests, lastCall, harnessVars >>

\* A handler that awaits get_earthquakes(limit, min_magnitude, country) and
\* finds a valid entry goes on with it; otherwise the request is sent and the
\* handler is suspended.  hit is the handler's step in the first case.
AwaitEarthquakes(frame, hit) ==
  IF _is_cache_valid(frame.key)
  THEN hit
  ELSE /\ handler' = [frame EXCEPT !.pc = "awaiting"]
       /\ requests' = Append(requests, Query(frame.key.limit, frame.key.min_magnitude,
                                             frame.key.country))
       /\ ncalls' = ncalls + 1
       /\ UNCHANGED << cache, response >>

\* /earthquakes
RouteEarthquakes(limit, min_magnitude, country) ==
  /\ Admitted
  /\ ParseCountry(country).ok
  /\ LET frame == Request("earthquakes", country, {"earthquakes"}, {},
                          EarthquakeKey(limit, min_magnitude, ParseCountry(country).value), 0)
     IN AwaitEarthquakes(frame,
          /\ response' = CollectionResponse(country, cache[frame.key].data)
          /\ handler' = frame
          /\ ncalls' = ncalls + 1
          /\ UNCHANGED << cache, requests >>)
  /\ UNCHANGED << now, calls, lastCall, harnessVars >>

\* /earthquake/{event_id}
RouteEarthquakeDetails(event_id, country) ==
  /\ Admitted
  /\ ParseCountry(country).ok
  /\ LET frame == Request("earthquake", country, {"earthquakes"}, {},
                          EarthquakeKey(DetailsLimit, DefaultMinMagnitude,
                                        ParseCountry(country).value), event_id)
     IN AwaitEarthquakes(frame,
          /\ response' = DetailsResponse(country, event_id, cache[frame.key].data)
          /\ handler' = frame
          /\ ncalls' = ncalls + 1
          /\ UNCHANGED << cache, requests >>)
  /\ UNCHANGED << now, calls, lastCall, harnessVars >>

\* /all-disasters, lines 184-224.  gather starts the selected fetchers in
\* order; the static ones run to their end, get_earthquakes may be suspended.
RouteAllDisasters(include, faults, earthquake_limit, min_magnitude, country) ==
  /\ Admitted
  /\ ParseCountry(country).ok
  /\ faults \subseteq include
  /\ LET c == ParseCountry(country).value
         parts == StaticParts(include, faults, c)
         stores == StaticStores(include \ faults, c)
         frame == [Request("all-disasters", country, include, faults,
                           EarthquakeKey(earthquake_limit, min_magnitude, c), 0)
                     EXCEPT !.parts = parts]
     IN IF "earthquakes" \in include \ faults /\ ~_is_cache_valid(frame.key)
        THEN /\ handler' = [frame EXCEPT !.pc = "awaiting"]
             /\ requests' = Append(requests, Query(earthquake_limit, min_magnitude, c))
             /\ cache' = Stored(stores, NoKey, EmptyCollection)
             /\ UNCHANGED response
        ELSE /\ handler' = frame
             /\ response' =
                  AllResponse(country, include, faults,
                    IF "earthquakes" \in include \ faults
                    THEN [parts EXCEPT !["earthquakes"] = cache[frame.key].data]
                    ELSE parts)
             /\ cache' = Stored(stores, NoKey, EmptyCollection)
             /\ UNCHANGED requests
  /\ ncalls' = ncalls + Cardinality(include)
  /\ UNCHANGED << now, calls, lastCall, harnessVars >>

\* /statistics, lines 239-255, and get_disaster_statistics.
RouteStatistics(faults, country) ==
  /\ Admitted
  /\ ParseCountry(country).ok
  /\ faults \subseteq {"earthquakes", "wildfires", "weather_alerts"}
  /\ LET c == ParseCountry(country).value
         frame == Request("statistics", country,
                          {"earthquakes", "wildfires", "weather_alerts"}, faults,
                          EarthquakeKey(DefaultLimit, DefaultMinMagnitude, c), 0)
     IN IF "earthquakes" \in faults
        THEN /\ handler' = frame
             /\ response' = StatsResponse(country, [raised |-> FALSE, stats |-> NoStats])
             /\ ncalls' = ncalls + 1
             /\ UNCHANGED << cache, requests >>
        ELSE AwaitEarthquakes(frame,
               /\ handler' = frame
               /\ response' = StatsResponse(country,
                                StatisticsTail(faults, c, cache[frame.key].data))
               /\ cache' = Stored(StaticStores(TailCalled(faults) \ faults, c),
                                  NoKey, EmptyCollection)
               /\ ncalls' = ncalls + 1 + Cardinality(TailCalled(faults))
               /\ UNCHANGED requests)
  /\ UNCHANGED << now, calls, lastCall, harnessVars >>

\* /country-bounds/{country}, lines 303-324.
RouteCountryBounds(country) ==
  /\ Admitted
  /\ ParseCountry(country).ok
  /\ handler' = Request("country-bounds", country, {}, {}, NoKey, 0)
  /\ response' =
       IF ParseCountry(country).value = ALL THEN [HttpError(400) EXCEPT !.country = country]
       ELSE IF get_country_bounds(ParseCountry(country).value) = None THEN HttpError(404)
       ELSE [NoResponse EXCEPT !.status = 200, !.kind = "bounds", !.country = country,
                               !.bounds = get_country_bounds(ParseCountry(country).value)]
  /\ UNCHANGED << serviceVars, harnessVars >>

\* /countries, lines 55-60.
RouteCountries ==
  /\ Admitted
  /\ handler' = Request("countries", NoStr, {}, {}, NoKey, 0)
  /\ response' = [NoResponse EXCEPT !.status = 200, !.kind = "countries",
                                    !.countries = get_available_countries]
  /\ UNCHANGED << serviceVars, harnessVars >>

\* The awaited get_earthquakes is resumed with the upstream's response and
\* the suspended handler runs to its end.
HandlerResume(status, body) ==
  /\ handler.pc = "awaiting"
  /\ LET key == handler.key
         c == key.country
         outcome == EarthquakeOutcome(status, body, key.limit, c)
         eq_keys == IF outcome.store THEN {key} ELSE {}
     IN CASE handler.route = "earthquakes" ->
               /\ response' = CollectionResponse(handler.country, outcome.value)
               /\ cache' = Stored(eq_keys, key, outcome.value)
               /\ UNCHANGED ncalls
          [] handler.route = "earthquake" ->
               /\ response' = DetailsResponse(handler.country, handler.event_id,
                                              outcome.value)
               /\ cache' = Stored(eq_keys, key, outcome.value)
               /\ UNCHANGED ncalls
          [] handler.route = "all-disasters" ->
               /\ response' = AllResponse(handler.country, handler.include,
                                handler.faults,
                                [handler.parts EXCEPT !["earthquakes"] = outcome.value])
               /\ cache' = Stored(eq_keys, key, outcome.value)
               /\ UNCHANGED ncalls
          [] handler.route = "statistics" ->
               /\ response' = StatsResponse(handler.country,
                                StatisticsTail(handler.faults, c, outcome.value))
               /\ cache' = Stored(eq_keys \cup
                                    StaticStores(TailCalled(handler.faults)
                                                   \ handler.faults, c),
                                  key, outcome.value)
               /\ ncalls' = ncalls + Cardinality(TailCalled(handler.faults))
  /\ handler' = [handler EXCEPT !.pc = "idle"]
  /\ UNCHANGED << now, calls, requests, lastCall, harnessVars >>

HarnessIdle ==
  /\ orig = EmptyCollection
  /\ inp = EmptyCollection
  /\ region = ALL
  /\ stage = "unused"
  /\ out = EmptyCollection
  /\ out2 = EmptyCollection

(***************************************************************************)
(* SpecFilter: _filter_by_country applied to a collection, and applied     *)
(* again to what it returned.                                              *)
(***************************************************************************)
InitFilter ==
  /\ orig \in FilterInputs
  /\ inp = orig
  /\ region \in Country
  /\ stage = "init"
  /\ out = EmptyCollection
  /\ out2 = EmptyCollection
  /\ ServiceInit
  /\ ApiIdle

DoFilter ==
  /\ stage = "init"
  /\ ~FilterRaises(inp, region)
  /\ out' = _filter_by_country(inp, region)
  /\ inp' = StampedInput(inp, region)
  /\ stage' = "filtered"
  /\ UNCHANGED << orig, region, out2, serviceVars, apiVars >>

DoFilterRaise ==
  /\ stage = "init"
  /\ FilterRaises(inp, region)
  /\ stage' = "raised"
  /\ UNCHANGED << orig, inp, region, out, out2, serviceVars, apiVars >>

DoFilterAgain ==
  /\ stage = "filtered"
  /\ ~FilterRaises(out, region)
  /\ out2' = _filter_by_country(out, region)
  /\ stage' = "twice"
  /\ UNCHANGED << orig, inp, region, out, serviceVars, apiVars >>

NextFilter == DoFilter \/ DoFilterRaise \/ DoFilterAgain

SpecFilter == InitFilter /\ [][NextFilter]_vars

(***************************************************************************)
(* SpecEnrich: _process_earthquake_data applied to a raw collection.       *)
(***************************************************************************)
InitEnrich ==
  /\ orig \in EnrichInputs
  /\ inp = orig
  /\ region = ALL
  /\ stage = "init"
  /\ out = EmptyCollection
  /\ out2 = EmptyCollection
  /\ ServiceInit
  /\ ApiIdle

DoProcess ==
  /\ stage = "init"
  /\ ~ProcessRaises(inp)
  /\ out' = _process_earthquake_data(inp)
  /\ inp' = _process_earthquake_data(inp)
  /\ stage' = "processed"
  /\ UNCHANGED << orig, region, out2, serviceVars, apiVars >>

DoProcessRaise ==
  /\ stage = "init"
  /\ ProcessRaises(inp)
  /\ stage' = "raised"
  /\ UNCHANGED << orig, inp, region, out, out2, serviceVars, apiVars >>

NextEnrich == DoProcess \/ DoProcessRaise

SpecEnrich == InitEnrich /\ [][NextEnrich]_vars

(***************************************************************************)
(* SpecMethods: the synchronous methods of the service applied to their    *)
(* arguments: the pipeline of get_earthquakes (lines 169-172:              *)
(* _process_earthquake_data, then _filter_by_country on its result),       *)
(* get_country_bounds and get_available_countries.  The country argument   *)
(* is a member of Country or a value the registry does not hold.           *)
(***************************************************************************)
UnknownCountry == "atlantis"

MethodsPool ==
  {QuakeCatalogue[i] : i \in 1..Len(QuakeCatalogue)} \cup
  {Feature(0, "point", << 552708, 252048 >>, Absent, Absent, NoStr),
   Feature(0, "point", << 550000 >>, Num(45), Absent, NoStr),
   Feature(0, "absent", << >>, Num(45), Absent, NoStr),
   Feature(0, "null", << >>, Num(45), Absent, NoStr)}

MethodsInputs == {Collection(Numbered(fs)) : fs \in SeqsUpTo(MethodsPool, MaxFeatures)}

InitMethods ==
  /\ orig \in MethodsInputs
  /\ inp = orig
  /\ region \in Country \cup {UnknownCountry}
  /\ stage = "init"
  /\ out = EmptyCollection
  /\ out2 = EmptyCollection
  /\ ServiceInit
  /\ ApiIdle

\* filtered_data = self._filter_by_country(processed_data, country)
DoFilterProcessed ==
  /\ stage = "processed"
  /\ ~FilterRaises(out, region)
  /\ out2' = _filter_by_country(out, region)
  /\ out' = StampedInput(out, region)
  /\ inp' = StampedInput(inp, region)
  /\ stage' = "piped"
  /\ UNCHANGED << orig, region, serviceVars, apiVars >>

DoFilterProcessedRaise ==
  /\ stage = "processed"
  /\ FilterRaises(out, region)
  /\ stage' = "filter_raised"
  /\ UNCHANGED << orig, inp, region, out, out2, serviceVars, apiVars >>

DoCountryBounds ==
  /\ stage = "init"
  /\ out' = get_country_bounds(region)
  /\ stage' = "bounds"
  /\ UNCHANGED << orig, inp, region, out2, serviceVars, apiVars >>

DoAvailableCountries ==
  /\ stage = "init"
  /\ out' = get_available_countries
  /\ stage' = "countries"
  /\ UNCHANGED << orig, inp, region, out2, serviceVars, apiVars >>

NextMethods ==
  \/ DoProcess \/ DoProcessRaise
  \/ DoFilterProcessed \/ DoFilterProcessedRaise
  \/ DoCountryBounds \/ DoAvailableCountries

SpecMethods == InitMethods /\ [][NextMethods]_vars

(***************************************************************************)
(* Spec: the service under calls from concurrent requests.                 *)
(***************************************************************************)
Init == HarnessIdle /\ ServiceInit /\ ApiIdle

Next ==
  \/ \E t \in Tasks, limit \in Limits, m \in MinMagnitudes, c \in Country :
       GetEarthquakesHit(t, limit, m, c)
  \/ \E t \in Tasks, limit \in Limits, m \in MinMagnitudes, c \in Country :
       GetEarthquakesMiss(t, limit, m, c)
  \/ \E t \in Tasks, body \in UpstreamBodies : GetEarthquakesResume(t, "ok", body)
  \/ \E t \in Tasks, status \in UpstreamFailures :
       GetEarthquakesResume(t, status, EmptyCollection)
  \/ \E c \in Country : GetWildfiresHit(c)
  \/ \E c \in Country : GetWildfiresMiss(c)
  \/ \E c \in Country : GetWeatherAlertsHit(c)
  \/ \E c \in Country : GetWeatherAlertsMiss(c)
  \/ \E c \in Country : GetReliefCenters(c)
  \/ Tick

Spec == Init /\ [][Next]_vars

(***************************************************************************)
(* SpecSeismic: get_earthquakes under upstream responses whose events      *)
(* have a magnitude, have none, or have a null one.                        *)
(***************************************************************************)
MagCatalogue ==
  << Feature(0, "point", << 550000, 240000, 50 >>, Num(62), Num(50), NoStr),
     Feature(0, "point", << 552708, 252048, 10 >>, Null, Absent, NoStr),
     Feature(0, "point", << 543773, 244539, 10 >>, Absent, Absent, NoStr) >>

MagBodies ==
  {Collection(Numbered(Pick(MagCatalogue, chosen))) :
     chosen \in {c \in SUBSET (1..Len(MagCatalogue)) : Cardinality(c) <= MaxFeatures}}

NextSeismic ==
  \/ \E t \in Tasks, limit \in Limits, m \in MinMagnitudes, c \in Country :
       GetEarthquakesHit(t, limit, m, c)
  \/ \E t \in Tasks, limit \in Limits, m \in MinMagnitudes, c \in Country :
       GetEarthquakesMiss(t, limit, m, c)
  \/ \E t \in Tasks, body \in MagBodies : GetEarthquakesResume(t, "ok", body)

SpecSeismic == Init /\ [][NextSeismic]_vars

(***************************************************************************)
(* SpecApi: the routes of backend/main.py over the service.                *)
(***************************************************************************)
CountryStrings == {"UAE", "Canada", "all", "atlantis"}

\* The routes that take a country parameter, by the name of their resource.
CountryRoutes ==
  {"earthquakes", "wildfires", "weather_alerts", "relief_centers", "all-disasters",
   "statistics", "earthquake", "country-bounds"}

\* The upstream's catalogue for these requests; a body is empty or holds
\* MaxApiFeatures consecutive events of it.
ApiCatalogue ==
  << Feature(0, "point", << 543773, 244539, 10 >>, Absent, Absent, NoStr),
     Feature(0, "point", << 560833, 243667, 10 >>, Num(60), Absent, NoStr),
     Feature(0, "point", << 550000, 240000, 10 >>, Num(50), Absent, NoStr),
     Feature(0, "point", << 552708, 252048, 10 >>, Num(65), Absent, NoStr),
     Feature(0, "point", << 563269, 253382, 10 >>, Num(72), Absent, NoStr) >>

ApiBodies ==
  {EmptyCollection} \cup
  {Collection(Numbered(SubSeq(ApiCatalogue, i, i + MaxApiFeatures - 1))) :
     i \in 1..(Len(ApiCatalogue) - MaxApiFeatures + 1)}

\* The fetchers that fail under one request: none, or one of them.
Faults == {{}} \cup {{c} : c \in Categories}

NextApi ==
  \/ \E route \in CountryRoutes, s \in CountryStrings : RouteRejected(route, s)
  \/ \E category \in {"wildfires", "weather_alerts", "relief_centers"},
        s \in CountryStrings : RouteStatic(category, s)
  \/ \E limit \in Limits, m \in MinMagnitudes, s \in CountryStrings :
       RouteEarthquakes(limit, m, s)
  \/ \E event_id \in 1..2, s \in CountryStrings : RouteEarthquakeDetails(event_id, s)
  \/ \E include \in SUBSET Categories, faults \in Faults,
        limit \in Limits, m \in MinMagnitudes, s \in CountryStrings :
       RouteAllDisasters(include, faults, limit, m, s)
  \/ \E faults \in Faults, s \in CountryStrings : RouteStatistics(faults, s)
  \/ \E s \in CountryStrings : RouteCountryBounds(s)
  \/ RouteCountries
  \/ \E body \in ApiBodies : HandlerResume("ok", body)
  \/ \E status \in UpstreamFailures : HandlerResume(status, EmptyCollection)

SpecApi == Init /\ [][NextApi]_vars

(***************************************************************************)
(* SpecStats: the statistics route, alone or after a request for one of    *)
(* the static categories, under upstream bodies that include one of more   *)
(* events than the default limit of get_earthquakes.                       *)
(***************************************************************************)
\* The events of the catalogue, repeated until the default limit is passed.
LongBody ==
  Collection(Numbered([i \in 1..(DefaultLimit + 2) |->
                         ApiCatalogue[(i % Len(ApiCatalogue)) + 1]]))

StatsBodies == ApiBodies \cup {LongBody}

NextStats ==
  \/ \E s \in CountryStrings : RouteRejected("statistics", s)
  \/ \E category \in {"wildfires", "weather_alerts", "relief_centers"},
        s \in CountryStrings : RouteStatic(category, s)
  \/ \E faults \in Faults, s \in CountryStrings : RouteStatistics(faults, s)
  \/ \E body \in StatsBodies : HandlerResume("ok", body)
  \/ \E status \in UpstreamFailures : HandlerResume(status, EmptyCollection)

SpecStats == Init /\ [][NextStats]_vars

(***************************************************************************)
(* Properties of _filter_by_country (SpecFilter).                          *)
(***************************************************************************)
Filtered == stage \in {"filtered", "twice"}

OutIds == {out.features[j].id : j \in 1..Len(out.features)}

HasPoint(f) == f.geom = "point" /\ Len(f.coords) >= 2

\* C1: for a region r other than ALL, a feature with at least two coordinates
\* [lon, lat] is in the output if and only if r.min_lat <= lat <= r.max_lat and
\* r.min_lon <= lon <= r.max_lon, both ends included.
C1_RetainedIffInsideBox ==
  (Filtered /\ region # ALL) =>
    \A i \in 1..Len(orig.features) :
      LET f == orig.features[i]
          r == COUNTRY_BOUNDS[region]
      IN HasPoint(f) =>
           (f.id \in OutIds <=>
              (/\ r.min_lat <= f.coords[2] /\ f.coords[2] <= r.max_lat
               /\ r.min_lon <= f.coords[1] /\ f.coords[1] <= r.max_lon))

\* A point on the UAE's min_lat is kept while a Canadian point is dropped.
C1_Witness ==
  /\ stage = "filtered" /\ region = UAE
  /\ \E i, k \in 1..Len(orig.features) :
       /\ HasPoint(orig.features[i])
       /\ orig.features[i].coords[2] = COUNTRY_BOUNDS[UAE].min_lat
       /\ i \in OutIds
       /\ HasPoint(orig.features[k])
       /\ orig.features[k].coords = << -1140719, 510447 >>
       /\ k \notin OutIds

\* C2: filtering by ALL returns the input collection itself, unchanged: the
\* same features in the same order, nothing stamped, no metadata block.
C2_AllIsIdentity ==
  (Filtered /\ region = ALL) => (out = orig /\ inp = orig)

C2_Witness ==
  /\ stage = "filtered" /\ region = ALL
  /\ Len(orig.features) >= 2
  /\ \E i \in 1..Len(orig.features) : HasPoint(orig.features[i])

\* C3: for a region other than ALL, filtering the output of the filter again by
\* the same region gives an equal collection: features, attributes, metadata.
C3_FilterIdempotent ==
  (stage = "twice" /\ region # ALL) => out2 = out

\* The first pass dropped a feature and kept one, and the second pass ran.
C3_Witness ==
  /\ stage = "twice" /\ region # ALL
  /\ Len(out.features) >= 1
  /\ Len(out.features) < Len(orig.features)

\* C4: the output features are a subsequence of the input features: each is an
\* input feature, and they come in strictly increasing source position, so
\* none is duplicated or reordered.
C4_OrderPreserved ==
  Filtered =>
    /\ \A j \in 1..Len(out.features) :
         /\ out.features[j].id \in 1..Len(orig.features)
         /\ out.features[j].geom = orig.features[out.features[j].id].geom
         /\ out.features[j].coords = orig.features[out.features[j].id].coords
    /\ \A j \in 1..(Len(out.features) - 1) :
         out.features[j].id < out.features[j + 1].id

\* Features 1 and 3 of three are kept, in that order; feature 2 is dropped.
C4_Witness ==
  /\ stage = "filtered" /\ region # ALL
  /\ Len(orig.features) = 3
  /\ Len(out.features) = 2
  /\ out.features[1].id = 1 /\ out.features[2].id = 3

(***************************************************************************)
(* Properties of the enrichment (SpecEnrich).                              *)
(***************************************************************************)
\* The magnitude and depth enrichment read from event i of the input.
MagRead(i) == IF orig.features[i].mag.kind = "absent" THEN 0 ELSE orig.features[i].mag.val
DepthRead(i) == IF orig.features[i].depth.kind = "absent" THEN 0 ELSE orig.features[i].depth.val

\* C5: severity is Extreme from 7.0, Severe from 6.0, Strong from 5.0, Moderate
\* from 4.0 and Light below, each threshold included, and the colour is
\* darkred/red/orange/yellow/green respectively.
C5_SeverityAndColor ==
  stage = "processed" =>
    \A i \in 1..Len(out.features) :
      LET m == MagRead(i)
          f == out.features[i]
      IN /\ (m >= 70) => (f.severity = "Extreme" /\ f.color = "darkred")
         /\ (m >= 60 /\ m < 70) => (f.severity = "Severe" /\ f.color = "red")
         /\ (m >= 50 /\ m < 60) => (f.severity = "Strong" /\ f.color = "orange")
         /\ (m >= 40 /\ m < 50) => (f.severity = "Moderate" /\ f.color = "yellow")
         /\ (m < 40) => (f.severity = "Light" /\ f.color = "green")

\* An event of magnitude exactly 7.0 and one of magnitude 6.9.
C5_Witness ==
  /\ stage = "processed"
  /\ \E i, k \in 1..Len(out.features) :
       /\ orig.features[i].mag = Num(70) /\ out.features[i].severity = "Extreme"
       /\ orig.features[k].mag = Num(69) /\ out.features[k].color = "red"

\* C6: the depth factor is 1.0 below 70, 0.8 from 70 to below 300, 0.6 from
\* 300; the score is magnitude times the factor; the level is Critical from
\* 6.5, High from 5.5, Medium from 4.0, Low below.
C6_RiskLevel ==
  stage = "processed" =>
    \A i \in 1..Len(out.features) :
      LET m == MagRead(i)
          d == DepthRead(i)
          factor == IF d < 70 THEN 10 ELSE IF d >= 70 /\ d < 300 THEN 8 ELSE 6
          score == m * factor
          level == out.features[i].risk_level
      IN /\ (score >= 650) => level = "Critical"
         /\ (score >= 550 /\ score < 650) => level = "High"
         /\ (score >= 400 /\ score < 550) => level = "Medium"
         /\ (score < 400) => level = "Low"

\* Depth exactly 70 takes factor 0.8 (8.1 -> 6.48, High) and depth exactly 300
\* takes 0.6 (9.2 -> 5.52, High); 6.5 at depth 69 is Critical.
C6_Witness ==
  /\ stage = "processed"
  /\ \E i, k \in 1..Len(out.features) :
       /\ orig.features[i].mag = Num(81) /\ orig.features[i].depth = Num(70)
       /\ out.features[i].risk_level = "High"
       /\ orig.features[k].mag = Num(65) /\ orig.features[k].depth = Num(69)
       /\ out.features[k].risk_level = "Critical"

SeverityRank(s) ==
  CASE s = "Light" -> 1 [] s = "Moderate" -> 2 [] s = "Strong" -> 3
    [] s = "Severe" -> 4 [] s = "Extreme" -> 5 [] OTHER -> 0

RiskRank(s) ==
  CASE s = "Low" -> 1 [] s = "Medium" -> 2 [] s = "High" -> 3
    [] s = "Critical" -> 4 [] OTHER -> 0

\* C7: at a fixed depth, a larger magnitude never gets a lower severity class
\* nor a lower risk level.
C7_MonotoneInMagnitude ==
  stage = "processed" =>
    \A i, k \in 1..Len(out.features) :
      (DepthRead(i) = DepthRead(k) /\ MagRead(i) <= MagRead(k)) =>
        /\ SeverityRank(out.features[i].severity) >= 1
        /\ SeverityRank(out.features[i].severity) <= SeverityRank(out.features[k].severity)
        /\ RiskRank(out.features[i].risk_level) >= 1
        /\ RiskRank(out.features[i].risk_level) <= RiskRank(out.features[k].risk_level)

\* Two events at depth 70, the larger one in a higher class on both scales.
C7_Witness ==
  /\ stage = "processed"
  /\ \E i, k \in 1..Len(out.features) :
       /\ DepthRead(i) = 70 /\ DepthRead(k) = 70
       /\ MagRead(i) < MagRead(k)
       /\ SeverityRank(out.features[i].severity) < SeverityRank(out.features[k].severity)
       /\ RiskRank(out.features[i].risk_level) < RiskRank(out.features[k].risk_level)

(***************************************************************************)
(* Properties of the cache and of the fetchers (Spec).                     *)
(***************************************************************************)
CachedCategories == {"earthquakes", "wildfires", "weather_alerts"}

\* The step is a call of a fetcher.
CallStep == ncalls' = ncalls + 1

\* The entry of key k is present and younger than 5 minutes.
Fresh(k) == k \in DOMAIN cache /\ now - cache[k].timestamp < 5

\* C8: a call of get_earthquakes, get_wildfires or get_weather_alerts whose
\* key has an entry younger than 5 minutes returns the stored value, sends no
\* upstream request and leaves the cache (data and timestamps) as it was.
C8_ValidEntryIsServed ==
  [][(CallStep /\ lastCall'.key.category \in CachedCategories /\ Fresh(lastCall'.key))
       => (/\ lastCall'.returned /\ ~lastCall'.raised
           /\ lastCall'.value = cache[lastCall'.key].data
           /\ requests' = requests
           /\ cache' = cache)]_vars

\* A seismic call was served a non-empty collection stored earlier.
C8_Witness ==
  /\ lastCall.event = "call" /\ lastCall.returned
  /\ lastCall.key.category = "earthquakes"
  /\ lastCall.key \in DOMAIN cache
  /\ now - cache[lastCall.key].timestamp \in 1..4
  /\ lastCall.value = cache[lastCall.key].data
  /\ Len(lastCall.value.features) >= 1
  /\ Len(requests) = 1

AllKeys ==
  {EarthquakeKey(l, m, c) : l \in Limits, m \in MinMagnitudes, c \in Country}
    \cup {WildfireKey(c) : c \in Country} \cup {WeatherKey(c) : c \in Country}

Dataset(category) == IF category = "wildfires" THEN ALL_WILDFIRES ELSE ALL_ALERTS

\* The response lets the try block of get_earthquakes run to its end.
GoodResponse(status, body, country) ==
  /\ status = "ok"
  /\ \A i \in 1..Len(body.features) : body.features[i].mag.kind # "null"
  /\ country = ALL \/ \A i \in 1..Len(body.features) : body.features[i].geom # "null"

\* The responses a suspended get_earthquakes can be resumed with.
Responses == ({"ok"} \X UpstreamBodies) \cup (UpstreamFailures \X {EmptyCollection})

\* The step is the completion of the suspended get_earthquakes of task t.
ResumeStep(t) == calls[t].pc = "awaiting" /\ calls'[t].pc = "idle"

\* _is_cache_valid(key) is true exactly when the entry exists and is younger
\* than 5 minutes.
ValidIffFresh == \A k \in AllKeys : _is_cache_valid(k) <=> Fresh(k)

\* A call whose key has no entry younger than 5 minutes is not served from the
\* cache: a static fetcher computes and stores its result, the seismic fetcher
\* sends a request.
StaleIsRecomputed ==
  (CallStep /\ lastCall'.key.category \in CachedCategories /\ ~Fresh(lastCall'.key)) =>
    IF lastCall'.key.category = "earthquakes"
    THEN /\ ~lastCall'.returned
         /\ Len(requests') = Len(requests) + 1
         /\ cache' = cache
    ELSE /\ lastCall'.returned
         /\ lastCall'.value =
              _filter_by_country(Dataset(lastCall'.key.category), lastCall'.key.country)
         /\ lastCall'.key \in DOMAIN cache'
         /\ cache'[lastCall'.key] = [data |-> lastCall'.value, timestamp |-> now]

\* C9 as stated: once the entry is 5 minutes old the next fetch for the key
\* recomputes the result and overwrites the entry, whatever the fetch meets.
C9_ExpiredEntryOverwritten ==
  [][/\ StaleIsRecomputed
     /\ \A t \in Tasks :
          (ResumeStep(t) /\ calls[t].found = "expired")
            => cache'[calls[t].key] = [data |-> lastCall'.value, timestamp |-> now]]_vars

\* C9, amended: _is_cache_valid(key) is true exactly when an entry for key
\* exists and is younger than 5 minutes (false for an absent key, false from
\* an age of 5 minutes on); a fetch that finds no valid entry recomputes, and
\* overwrites the entry when the recomputation succeeds: a static fetcher
\* always, the seismic fetcher when the request and the processing succeed,
\* while a failed seismic fetch leaves the entry as it was.
C9_ValidityWindow ==
  /\ []ValidIffFresh
  /\ [][/\ StaleIsRecomputed
        /\ \A t \in Tasks : ResumeStep(t) => \A r \in Responses :
             GetEarthquakesResume(t, r[1], r[2]) =>
               IF GoodResponse(r[1], r[2], calls[t].key.country)
               THEN /\ calls[t].key \in DOMAIN cache'
                    /\ cache'[calls[t].key] = [data |-> lastCall'.value, timestamp |-> now]
               ELSE cache' = cache]_vars

\* An entry stored at minute 0 is exactly 5 minutes old, counted as not valid,
\* and a fetch of its key has just overwritten it.
C9_Witness ==
  /\ now = 5
  /\ lastCall.event = "complete" /\ lastCall.returned
  /\ lastCall.key \in DOMAIN cache
  /\ cache[lastCall.key].timestamp = 5
  /\ ncalls = 2
  /\ Len(requests) = 2 /\ requests[1] = requests[2]
  /\ \A t \in Tasks : calls[t].pc = "idle"

\* C10: get_earthquakes raises nothing to its caller; when the request fails
\* (network error, timeout, error status), the body cannot be decoded or the
\* processing of the response raises, it returns an empty FeatureCollection.
C10_FailSoft ==
  [][/\ lastCall'.key.category = "earthquakes" => ~lastCall'.raised
     /\ \A t \in Tasks : ResumeStep(t) => \A r \in Responses :
          (/\ GetEarthquakesResume(t, r[1], r[2])
           /\ ~GoodResponse(r[1], r[2], calls[t].key.country))
            => (/\ lastCall'.returned
                /\ lastCall'.value = EmptyCollection)]_vars

\* A seismic fetch ended with an empty collection and stored nothing: it failed.
C10_Witness ==
  /\ lastCall.event = "complete"
  /\ lastCall.key.category = "earthquakes"
  /\ lastCall.returned /\ ~lastCall.raised
  /\ lastCall.value = EmptyCollection
  /\ lastCall.key \notin DOMAIN cache

\* The seismic entries of the cache hold at most `limit` features.
CachedWithinLimit ==
  \A k \in DOMAIN cache :
    k.category = "earthquakes" => Len(cache[k].data.features) <= k.limit

\* C12: on a successful fetch get_earthquakes returns at most `limit`
\* features, namely the first `limit` features, in source order, of the
\* enriched and region-filtered upstream response, and the value it stores in
\* the cache obeys the same bound.
C12_TruncatedToLimit ==
  /\ []CachedWithinLimit
  /\ [][\A t \in Tasks : ResumeStep(t) => \A r \in Responses :
          (/\ GetEarthquakesResume(t, r[1], r[2])
           /\ GoodResponse(r[1], r[2], calls[t].key.country))
            => LET limit == calls[t].key.limit
                   full == _filter_by_country(_process_earthquake_data(r[2]),
                                              calls[t].key.country).features
                   n == IF Len(full) < limit THEN Len(full) ELSE limit
               IN /\ lastCall'.returned
                  /\ Len(lastCall'.value.features) <= limit
                  /\ lastCall'.value.features = SubSeq(full, 1, n)
                  /\ cache'[calls[t].key].data.features = SubSeq(full, 1, n)]_vars

\* Two events passed the UAE filter and a fetch with limit 1 returned and
\* stored the first of them.
C12_Witness ==
  /\ lastCall.event = "complete" /\ lastCall.returned
  /\ lastCall.key.limit = 1 /\ lastCall.key.country = UAE
  /\ lastCall.value.metadata.total_filtered = 2
  /\ Len(lastCall.value.features) = 1
  /\ lastCall.value.features[1].id = 1
  /\ lastCall.key \in DOMAIN cache
  /\ cache[lastCall.key].data = lastCall.value

AllCategories == CachedCategories \cup {"relief_centers"}

\* C15 as stated: every fetcher, get_relief_centers included, goes through
\* the cache: a call whose key has a valid entry returns it, and a call that
\* computes its result stores it under its key before it returns.
C15_EveryFetcherCaches ==
  [][(CallStep /\ lastCall'.key.category \in AllCategories) =>
       /\ Fresh(lastCall'.key) =>
            (/\ lastCall'.returned
             /\ lastCall'.value = cache[lastCall'.key].data
             /\ cache' = cache)
       /\ (~Fresh(lastCall'.key) /\ lastCall'.returned) =>
            (/\ lastCall'.key \in DOMAIN cache'
             /\ cache'[lastCall'.key] = [data |-> lastCall'.value, timestamp |-> now])]_vars

\* The suspended calls of key k, and the requests sent for it.
AwaitingOn(k) == {t \in Tasks : calls[t].pc = "awaiting" /\ calls[t].key = k}
SentFor(k) ==
  {i \in 1..Len(requests) : requests[i] = Query(k.limit, k.min_magnitude, k.country)}

\* C16: concurrent get_earthquakes calls of one key that all miss are not
\* deduplicated: every suspended call has sent a request of its own, and a
\* call that completes with a result leaves that result in the cache, so the
\* cache holds the value of the call that completed last.
C16_NoSingleFlight ==
  /\ \A t \in Tasks :
       calls[t].pc = "awaiting" =>
         Cardinality(SentFor(calls[t].key)) >= Cardinality(AwaitingOn(calls[t].key))
  /\ (/\ lastCall.event = "complete"
      /\ Len(lastCall.value.features) >= 1 \/ lastCall.value.metadata.present)
       => (/\ lastCall.key \in DOMAIN cache
           /\ cache[lastCall.key].data = lastCall.value)

\* Two calls of one key were in flight together (the second took task slot 2
\* and sent the same query as the first); the second has just completed, last,
\* and the cache holds its result.
C16_Witness ==
  /\ lastCall.event = "complete" /\ lastCall.task = 2
  /\ \A t \in Tasks : calls[t].pc = "idle"
  /\ Len(requests) = 2 /\ requests[1] = requests[2]
  /\ now = 1
  /\ Len(lastCall.value.features) = 2
  /\ lastCall.key \in DOMAIN cache
  /\ cache[lastCall.key] = [data |-> lastCall.value, timestamp |-> 1]

(***************************************************************************)
(* Properties of the registry accessors and of the pipeline (SpecMethods). *)
(***************************************************************************)
\* C18: get_country_bounds returns the registry's bounds for each defined
\* region and None for ALL; get_available_countries returns one
\* {code, name, center} entry per region of the registry, in registry order
\* (uae, then canada), and no entry for ALL.
C18_RegistryAccessors ==
  /\ stage = "bounds" =>
        /\ region = UAE =>
             /\ out.name = "United Arab Emirates" /\ out.code = "AE"
             /\ out.min_lat = 225000 /\ out.max_lat = 265000
             /\ out.min_lon = 510000 /\ out.max_lon = 565000
        /\ region = CANADA =>
             /\ out.name = "Canada" /\ out.code = "CA"
             /\ out.min_lat = 410000 /\ out.max_lat = 840000
             /\ out.min_lon = -1410000 /\ out.max_lon = -520000
        /\ region \in {UAE, CANADA} => out = COUNTRY_BOUNDS[region]
        /\ region = ALL => out = None
  /\ stage = "countries" =>
        /\ out = << [code |-> "uae", name |-> "United Arab Emirates",
                     center |-> << 240000, 540000 >>],
                    [code |-> "canada", name |-> "Canada",
                     center |-> << 600000, -950000 >>] >>
        /\ \A i \in 1..Len(out) : out[i].code # ALL

\* get_country_bounds was applied to ALL and gave None.
C18_Witness ==
  /\ stage = "bounds" /\ region = ALL /\ out = None
  /\ Len(orig.features) = 0

\* C19: for a country that is neither ALL nor in the registry,
\* _filter_by_country returns an empty FeatureCollection and raises nothing,
\* whatever the collection it is given.
C19_UnknownRegionIsEmpty ==
  region \notin (DOMAIN COUNTRY_BOUNDS) \cup {ALL} =>
    /\ stage # "filter_raised"
    /\ stage = "piped" => (out2 = EmptyCollection /\ Len(out2.features) = 0)

\* The collection held two features, one of them with a null geometry.
C19_Witness ==
  /\ stage = "piped" /\ region = UnknownCountry
  /\ Len(out.features) = 2
  /\ \E i \in 1..2 : out.features[i].geom = "null"
  /\ \E i \in 1..2 : out.features[i].geom = "point" /\ Len(out.features[i].coords) >= 2
  /\ out2 = EmptyCollection

\* C20: a single seismic feature at (lon 55.0, lat 24.0) with magnitude 6.2
\* and depth 50, enriched and then filtered by UAE, is retained with severity
\* "Severe" and risk level "High".
C20_ScenarioUAE ==
  (/\ stage \in {"piped", "filter_raised"} /\ region = UAE
   /\ Len(orig.features) = 1
   /\ orig.features[1].geom = "point"
   /\ Len(orig.features[1].coords) >= 2
   /\ orig.features[1].coords[1] = 550000 /\ orig.features[1].coords[2] = 240000
   /\ orig.features[1].mag = Num(62) /\ orig.features[1].depth = Num(50))
    => /\ stage = "piped"
       /\ Len(out2.features) = 1
       /\ out2.features[1].id = 1
       /\ out2.features[1].severity = "Severe"
       /\ out2.features[1].risk_level = "High"

C20_Witness ==
  /\ stage = "piped" /\ region = UAE
  /\ Len(orig.features) = 1
  /\ orig.features[1].coords = << 550000, 240000, 50 >>
  /\ orig.features[1].mag = Num(62) /\ orig.features[1].depth = Num(50)
  /\ Len(out2.features) = 1
  /\ out2.features[1].severity = "Severe" /\ out2.features[1].risk_level = "High"

(***************************************************************************)
(* Properties of the route layer and of the statistics (SpecApi).          *)
(***************************************************************************)
\* The request last handled, now answered, was one of this route with a
\* country string that names a member of Country.
Served(route) ==
  /\ handler.pc = "idle" /\ handler.route = route
  /\ Lower(handler.country) \in {"uae", "canada", "all"}

\* The seismic collection a handler got for its key: the entry of the key,
\* or the empty collection of a failed fetch, which stores nothing.
SeismicResult ==
  IF handler.key \in DOMAIN cache THEN cache[handler.key].data ELSE EmptyCollection

\* C11: in the response of get_all_disasters every selected category has its
\* key; the category of a fetcher that raised maps to an empty
\* FeatureCollection, and every other one maps to the result of its fetcher.
C11_AggregationIsolatesFailures ==
  Served("all-disasters") =>
    /\ response.status = 200
    /\ response.keys = handler.include
    /\ \A c \in handler.include :
         IF c \in handler.faults THEN response.parts[c] = EmptyCollection
         ELSE IF c = "earthquakes" THEN response.parts[c] = SeismicResult
         ELSE response.parts[c] =
                _filter_by_country(StaticDataset(c), Lower(handler.country))

\* All four categories were selected for the UAE and get_wildfires raised:
\* its key holds an empty collection, the three others hold their features.
C11_Witness ==
  /\ Served("all-disasters") /\ handler.country = "UAE"
  /\ handler.include = Categories /\ handler.faults = {"wildfires"}
  /\ response.keys = Categories
  /\ response.parts["wildfires"] = EmptyCollection
  /\ Len(response.parts["earthquakes"].features) = 2
  /\ Len(response.parts["weather_alerts"].features) = 2
  /\ Len(response.parts["relief_centers"].features) = 3

\* The sum of the magnitudes of the first n features, a missing one being 0.
RECURSIVE MagTotal(_, _)
MagTotal(fs, n) ==
  IF n = 0 THEN 0
  ELSE MagTotal(fs, n - 1) + (IF fs[n].mag.kind = "num" THEN fs[n].mag.val ELSE 0)

\* C13: the statistics hold the number of seismic features fetched for the
\* region, the number of them of magnitude 6.0 or more, the numbers of
\* wildfire and weather-alert features of the region, and the mean of the
\* magnitudes, which is 0 when there is no seismic feature.
C13_Statistics ==
  (Served("statistics") /\ response.stats.present) =>
    LET c == Lower(handler.country)
        fs == SeismicResult.features
        stats == response.stats
        mean == stats.avg_earthquake_magnitude
    IN /\ stats.total_earthquakes = Len(fs)
       /\ stats.severe_earthquakes =
            Cardinality({i \in 1..Len(fs) : fs[i].mag.kind = "num" /\ fs[i].mag.val >= 60})
       /\ stats.total_wildfires = (IF c = "uae" THEN 2 ELSE IF c = "canada" THEN 4 ELSE 6)
       /\ stats.active_weather_alerts = (IF c = "all" THEN 4 ELSE 2)
       /\ mean.den >= 1
       /\ IF Len(fs) = 0 THEN mean.num = 0
          ELSE mean.num = MagTotal(fs, Len(fs)) /\ mean.den = Len(fs)
       /\ (\E i, j, k \in 1..Len(fs) :
             /\ Len(fs) = 3 /\ {i, j, k} = {1, 2, 3}
             /\ fs[i].mag = Num(50) /\ fs[j].mag = Num(65) /\ fs[k].mag = Num(72))
            => (stats.severe_earthquakes = 2 /\ mean = [num |-> 187, den |-> 3])

\* Magnitudes 5.0, 6.5 and 7.2: two severe events and a mean of 18.7 / 3.
C13_Witness ==
  /\ Served("statistics") /\ response.stats.present
  /\ response.stats.total_earthquakes = 3
  /\ response.stats.severe_earthquakes = 2
  /\ response.stats.avg_earthquake_magnitude = [num |-> 187, den |-> 3]
  /\ response.stats.total_wildfires = 6

\* C14: get_disaster_statistics raises nothing: when a step of it raises, it
\* returns an empty statistics object, which the route answers with.
C14_StatisticsFailSoft ==
  Served("statistics") =>
    /\ response.status = 200 /\ response.kind = "statistics"
    /\ handler.faults # {} => response.stats = NoStats

\* get_weather_alerts raised after the two fetches before it had stored
\* their results; the statistics are empty.
C14_Witness ==
  /\ Served("statistics") /\ handler.faults = {"weather_alerts"}
  /\ response.status = 200 /\ response.stats = NoStats
  /\ handler.key \in DOMAIN cache
  /\ WildfireKey(Lower(handler.country)) \in DOMAIN cache
  /\ WeatherKey(Lower(handler.country)) \notin DOMAIN cache

\* C17: a request on a route with a country parameter whose value is not,
\* whatever its case, one of uae, canada and all is answered with HTTP 400
\* and no fetcher is called: the cache, the requests sent and the number of
\* service calls stay as they were.
C17_InvalidCountryRejected ==
  [][(/\ handler.pc = "idle"
      /\ handler'.route \in CountryRoutes
      /\ Lower(handler'.country) \notin {"uae", "canada", "all"})
       => (/\ response'.status = 400
           /\ handler'.pc = "idle"
           /\ cache' = cache /\ requests' = requests /\ ncalls' = ncalls)]_vars

\* A statistics request for "atlantis" was rejected while the cache held an
\* entry of an earlier request.
C17_Witness ==
  /\ handler.pc = "idle" /\ handler.route = "statistics"
  /\ handler.country = "atlantis"
  /\ response.status = 400
  /\ DOMAIN cache # {} /\ ncalls = 1 /\ Len(requests) = 1

(***************************************************************************)
(* Features without usable coordinates (SpecFilter).                       *)
(***************************************************************************)
\* C24: filtering by a region other than ALL raises nothing; a feature with
\* fewer than two coordinate values, or with no geometry or coordinates at
\* all, is left out of the output, and every other feature is kept exactly
\* when it lies inside the region's box.
C24_FewCoordinatesSkipped ==
  region # ALL =>
    /\ stage # "raised"
    /\ Filtered =>
         \A i \in 1..Len(orig.features) :
           LET f == orig.features[i]
           IN IF HasPoint(f)
              THEN f.id \in OutIds <=>
                     InBounds(COUNTRY_BOUNDS[region], f.coords[2], f.coords[1])
              ELSE f.id \notin OutIds

(***************************************************************************)
(* Further properties of the fetchers and of the cache (Spec).             *)
(***************************************************************************)
\* C21: a collection a fetcher returns for a region other than ALL (the bare
\* empty collection of a failed seismic fetch aside) carries the region's
\* name and code in its metadata, and its total_filtered is the number of
\* features of that collection, also after the truncation to `limit`.
C21_MetadataCountsReturned ==
  (/\ lastCall.returned
   /\ lastCall.key.country \in DOMAIN COUNTRY_BOUNDS
   /\ lastCall.value # EmptyCollection)
    => (/\ lastCall.value.metadata.present
        /\ lastCall.value.metadata.country = COUNTRY_BOUNDS[lastCall.key.country].name
        /\ lastCall.value.metadata.country_code = COUNTRY_BOUNDS[lastCall.key.country].code
        /\ lastCall.value.metadata.total_filtered = Len(lastCall.value.features))

\* The step suspends the get_earthquakes of task t: its cache check missed.
MissStep(t) == calls[t].pc = "idle" /\ calls'[t].pc = "awaiting"

\* C23: a get_earthquakes that misses the cache sends exactly one query; its
\* limit is twice `limit`, its minimum magnitude is min_magnitude, and it
\* carries the region's minimum and maximum latitude and longitude exactly
\* when the region is not ALL.  No other step sends a query.
C23_UpstreamQuery ==
  [][/\ \A t \in Tasks : MissStep(t) =>
          LET k == calls'[t].key
              q == requests'[Len(requests')]
          IN /\ Len(requests') = Len(requests) + 1
             /\ SubSeq(requests', 1, Len(requests)) = requests
             /\ q.limit = 2 * k.limit
             /\ q.minmagnitude = k.min_magnitude
             /\ q.bbox <=> k.country # ALL
             /\ q.bbox =>
                  /\ q.minlatitude = COUNTRY_BOUNDS[k.country].min_lat
                  /\ q.maxlatitude = COUNTRY_BOUNDS[k.country].max_lat
                  /\ q.minlongitude = COUNTRY_BOUNDS[k.country].min_lon
                  /\ q.maxlongitude = COUNTRY_BOUNDS[k.country].max_lon
     /\ (\A t \in Tasks : ~MissStep(t)) => requests' = requests]_vars

\* A miss for the UAE with limit 2 sent a query for 4 events inside the UAE
\* box, and a miss for ALL with limit 1 sent one for 2 events with no box.
C23_Witness ==
  /\ Len(requests) = 2
  /\ requests[1].bbox /\ requests[1].limit = 4 /\ requests[1].minmagnitude = 25
  /\ requests[1].minlatitude = 225000 /\ requests[1].maxlatitude = 265000
  /\ requests[1].minlongitude = 510000 /\ requests[1].maxlongitude = 565000
  /\ ~requests[2].bbox /\ requests[2].limit = 2
  /\ \A t \in Tasks : calls[t].pc = "awaiting"

\* C25: nothing is evicted from the cache.  A step removes no key; the
\* passing of time changes no entry; and an entry is created or changed only
\* under the key of a fetch that has just succeeded, which stores its result
\* with the current time, so an expired entry stays until such a fetch of its
\* own key overwrites it.
C25_NoEviction ==
  [][/\ DOMAIN cache \subseteq DOMAIN cache'
     /\ now' # now => cache' = cache
     /\ \A k \in DOMAIN cache' :
          (k \notin DOMAIN cache \/ cache'[k] # cache[k]) =>
            /\ k = lastCall'.key
            /\ lastCall'.returned /\ ~lastCall'.hit
            /\ cache'[k] = [data |-> lastCall'.value, timestamp |-> now]]_vars

\* An entry stored at minute 0 has expired and is still there at minute 5,
\* next to the entry a fetch of another key has just stored.
C25_Witness ==
  \E k, j \in DOMAIN cache :
    /\ k # j
    /\ cache[k].timestamp = 0 /\ now = 5 /\ ~_is_cache_valid(k)
    /\ cache[j].timestamp = 5 /\ lastCall.key = j

\* C26: a seismic fetch that fails leaves the cache as it was: the empty
\* collection it returns is not stored, no entry is created for its key, and
\* every entry keeps its data and timestamp.  A later call of a key that has
\* no entry therefore sends a query again and is not served from the cache.
C26_FailedFetchStoresNothing ==
  [][/\ \A t \in Tasks : ResumeStep(t) => \A r \in Responses :
          (/\ GetEarthquakesResume(t, r[1], r[2])
           /\ ~GoodResponse(r[1], r[2], calls[t].key.country))
            => (/\ lastCall'.value = EmptyCollection
                /\ DOMAIN cache' = DOMAIN cache
                /\ \A k \in DOMAIN cache : cache'[k] = cache[k])
     /\ (/\ CallStep /\ lastCall'.key.category = "earthquakes"
         /\ lastCall'.key \notin DOMAIN cache)
          => (/\ MissStep(lastCall'.task)
              /\ ~lastCall'.returned
              /\ requests' = Append(requests, Query(lastCall'.key.limit,
                                                    lastCall'.key.min_magnitude,
                                                    lastCall'.key.country)))]_vars

\* The first fetch of a key failed and stored nothing; the next call of the
\* same key, made after it, has sent the same query again.
C26_Witness ==
  /\ ncalls = 2 /\ DOMAIN cache = {}
  /\ Len(requests) = 2 /\ requests[1] = requests[2]
  /\ lastCall.event = "call" /\ lastCall.task = 1
  /\ calls[1].pc = "awaiting"
  /\ \A t \in Tasks : t # 1 => calls[t].pc = "idle"

\* The feature has a longitude and a latitude inside the box of region r.
InsideBox(f, r) ==
  /\ f.geom = "point" /\ Len(f.coords) >= 2
  /\ COUNTRY_BOUNDS[r].min_lat <= f.coords[2] /\ f.coords[2] <= COUNTRY_BOUNDS[r].max_lat
  /\ COUNTRY_BOUNDS[r].min_lon <= f.coords[1] /\ f.coords[1] <= COUNTRY_BOUNDS[r].max_lon

\* C27: whatever the interleaving of the fetches, a collection stored under a
\* key of a region other than ALL holds only features inside that region's
\* box, a collection stored under a seismic key of limit L holds at most L
\* features, a static key holds the data of its own category and region, and
\* a call served from the cache gets the entry of the key made of its own
\* category, parameters and region.
C27_CacheKeyedByRequest ==
  /\ \A k \in DOMAIN cache :
       /\ k.category \in CachedCategories /\ k.country \in Country
       /\ k.country # ALL =>
            /\ \A i \in 1..Len(cache[k].data.features) :
                 InsideBox(cache[k].data.features[i], k.country)
            /\ cache[k].data.metadata.country_code = COUNTRY_BOUNDS[k.country].code
       /\ k.category = "earthquakes" =>
            (k.limit \in Limits /\ Len(cache[k].data.features) <= k.limit)
       /\ k.category # "earthquakes" =>
            cache[k].data = _filter_by_country(Dataset(k.category), k.country)
  /\ lastCall.hit =>
       /\ lastCall.key \in DOMAIN cache
       /\ lastCall.value = cache[lastCall.key].data

\* Two seismic fetches of the same limit, one for the UAE and one for ALL,
\* were in flight together; the UAE key holds two events of the UAE, the ALL
\* key holds an event of Canada.
C27_Witness ==
  /\ DOMAIN cache = {EarthquakeKey(2, 25, UAE), EarthquakeKey(2, 25, ALL)}
  /\ Len(requests) = 2 /\ now = 0
  /\ Len(cache[EarthquakeKey(2, 25, UAE)].data.features) = 2
  /\ \E i \in 1..Len(cache[EarthquakeKey(2, 25, ALL)].data.features) :
       InsideBox(cache[EarthquakeKey(2, 25, ALL)].data.features[i], CANADA)

StaticCategories == {"wildfires", "weather_alerts"}

\* C30: get_wildfires and get_weather_alerts run from their cache check to
\* their store without being suspended.  A call of one of them ends in the
\* step that starts it; it computes and stores only when its key has no
\* entry younger than 5 minutes, and is served from the cache otherwise, so
\* an entry of theirs is never overwritten while it is valid.  The only
\* coroutines that are ever suspended belong to get_earthquakes.
C30_StaticFetchersAtomic ==
  [][/\ \A k \in DOMAIN cache :
          (k.category \in StaticCategories /\ cache'[k] # cache[k]) => ~Fresh(k)
     /\ (CallStep /\ lastCall'.key.category \in StaticCategories) =>
          /\ lastCall'.returned
          /\ calls' = calls /\ requests' = requests
          /\ IF Fresh(lastCall'.key)
             THEN lastCall'.hit /\ cache' = cache
             ELSE /\ ~lastCall'.hit
                  /\ cache'[lastCall'.key] = [data |-> lastCall'.value, timestamp |-> now]
     /\ \A t \in Tasks :
          calls'[t].pc = "awaiting" => calls'[t].key.category = "earthquakes"]_vars

\* Two calls of get_wildfires for one region, three minutes apart: the first
\* stored its result, the second was served from the cache, and the entry
\* still carries the time of the first.
C30_Witness ==
  /\ ncalls = 2 /\ now = 3 /\ requests = << >>
  /\ lastCall.hit /\ lastCall.key = WildfireKey(CANADA)
  /\ DOMAIN cache = {WildfireKey(CANADA)}
  /\ cache[WildfireKey(CANADA)].timestamp = 0
  /\ lastCall.value = cache[WildfireKey(CANADA)].data
  /\ Len(lastCall.value.features) = 4

(***************************************************************************)
(* Further properties of the route layer (SpecApi).                        *)
(***************************************************************************)
\* The combined request is suspended on its seismic fetch.
CombinedSuspended == handler.route = "all-disasters" /\ handler.pc = "awaiting"

\* The static fetcher of category c, started by the suspended combined
\* request, has run to its end: its result is held for the response and, for
\* a cached category, stored under its key.
StaticDone(c) ==
  LET country == Lower(handler.country)
  IN /\ handler.parts[c] = _filter_by_country(StaticDataset(c), country)
     /\ c \in {"wildfires", "weather_alerts"} => StaticKey(c, country) \in DOMAIN cache

\* C22: the combined request starts every selected fetcher and builds its
\* response only when all of them have completed: while the seismic fetch
\* waits for the upstream, its query has been sent, the other selected
\* fetchers have run to their end and no response exists yet; the response
\* has a key for each selected category and for no other.
C22_FanOutFanIn ==
  /\ [](CombinedSuspended =>
          /\ "earthquakes" \in handler.include \ handler.faults
          /\ Len(requests) >= 1
          /\ requests[Len(requests)] =
               Query(handler.key.limit, handler.key.min_magnitude, handler.key.country)
          /\ \A c \in (handler.include \ handler.faults) \ {"earthquakes"} : StaticDone(c))
  /\ [](Served("all-disasters") =>
          /\ response.kind = "combined"
          /\ response.keys = handler.include
          /\ \A c \in Categories \ handler.include : response.parts[c] = EmptyCollection)
  /\ [][/\ handler'.pc = "awaiting" => response' = response
        /\ (handler'.route = "all-disasters" /\ response' # response)
             => handler'.pc = "idle"]_vars

\* The seismic call of a combined request for Canada with all four categories
\* is still waiting; the wildfire and weather-alert results are stored, the
\* relief centers are computed, and no response has been built.
C22_Witness ==
  /\ CombinedSuspended /\ handler.country = "Canada"
  /\ handler.include = Categories /\ handler.faults = {}
  /\ Len(requests) = 1 /\ requests[1].bbox
  /\ handler.key \notin DOMAIN cache
  /\ Len(cache[WildfireKey(CANADA)].data.features) = 4
  /\ Len(cache[WeatherKey(CANADA)].data.features) = 2
  /\ Len(handler.parts["relief_centers"].features) = 3
  /\ response = NoResponse

(***************************************************************************)
(* Null and missing magnitudes (SpecSeismic).                              *)
(***************************************************************************)
\* The body holds an event whose magnitude is present and null.
HasNullMag(body) == \E i \in 1..Len(body.features) : body.features[i].mag = Null

\* An event without a magnitude is classified as one of magnitude 0.
MissingMagIsLight(data) ==
  \A i \in 1..Len(data.features) :
    data.features[i].mag = Absent =>
      /\ data.features[i].severity = "Light"
      /\ data.features[i].color = "green"
      /\ data.features[i].risk_level = "Low"

\* C28: when the upstream response holds an event whose magnitude is null,
\* get_earthquakes returns an empty FeatureCollection, whatever the other
\* events are, and leaves the cache as it was; an event whose magnitude is
\* missing is classified 'Light' with risk level 'Low' in every collection
\* returned or stored.
C28_NullMagnitudeFailsRequest ==
  /\ [](/\ MissingMagIsLight(lastCall.value)
        /\ \A k \in DOMAIN cache : MissingMagIsLight(cache[k].data))
  /\ [][\A t \in Tasks : ResumeStep(t) => \A body \in MagBodies :
          (GetEarthquakesResume(t, "ok", body) /\ HasNullMag(body))
            => (/\ lastCall'.returned /\ ~lastCall'.raised
                /\ lastCall'.value = EmptyCollection
                /\ cache' = cache)]_vars

\* A fetch for the UAE stored an event without magnitude as 'Light'; a fetch
\* for ALL, in flight at the same time, met a null magnitude, returned the
\* bare empty collection and stored nothing.
C28_Witness ==
  /\ lastCall.event = "complete" /\ lastCall.key.country = ALL
  /\ lastCall.returned /\ lastCall.value = EmptyCollection
  /\ lastCall.key \notin DOMAIN cache
  /\ \E k \in DOMAIN cache :
       /\ k.country = UAE
       /\ \E i \in 1..Len(cache[k].data.features) :
            /\ cache[k].data.features[i].mag = Absent
            /\ cache[k].data.features[i].severity = "Light"
            /\ cache[k].data.features[i].risk_level = "Low"

(***************************************************************************)
(* Statistics when the seismic upstream fails (SpecStats).                 *)
(***************************************************************************)
\* The statistics request last handled had no fetcher forced to raise, and
\* its seismic fetch stored nothing: the upstream call failed.
SeismicFailedUnderStatistics ==
  /\ Served("statistics") /\ handler.faults = {}
  /\ handler.key \notin DOMAIN cache

\* C29: when the seismic upstream fails, the statistics are not empty: they
\* hold 0 seismic events, 0 severe ones and a mean magnitude of 0 next to the
\* wildfire and weather-alert counts of the region; and in all statistics
\* that are not empty, severe_earthquakes <= total_earthquakes <= 50.
C29_StatisticsSurviveSeismicFailure ==
  /\ SeismicFailedUnderStatistics =>
       LET c == Lower(handler.country)
       IN /\ response.status = 200
          /\ response.stats.present
          /\ response.stats.country = c
          /\ response.stats.total_earthquakes = 0
          /\ response.stats.severe_earthquakes = 0
          /\ response.stats.avg_earthquake_magnitude.num = 0
          /\ response.stats.total_wildfires =
               Len(_filter_by_country(ALL_WILDFIRES, c).features)
          /\ response.stats.total_wildfires = (IF c = "uae" THEN 2 ELSE IF c = "canada" THEN 4 ELSE 6)
          /\ response.stats.active_weather_alerts =
               Len(_filter_by_country(ALL_ALERTS, c).features)
  /\ response.stats.present =>
       /\ response.stats.severe_earthquakes <= response.stats.total_earthquakes
       /\ response.stats.total_earthquakes <= 50

\* The upstream call of a statistics request for the UAE failed; the
\* statistics hold no seismic event, 2 wildfires and 2 weather alerts.
C29_Witness ==
  /\ SeismicFailedUnderStatistics /\ handler.country = "UAE"
  /\ Len(requests) = 1
  /\ response.stats.present
  /\ response.stats.total_earthquakes = 0
  /\ response.stats.total_wildfires = 2
  /\ response.stats.active_weather_alerts = 2
  /\ WildfireKey(UAE) \in DOMAIN cache /\ WeatherKey(UAE) \in DOMAIN cache

====
